---------------------------- MODULE Spec2Model ----------------------------
(***************************************************************************)
(* A model of the NES emulator's CPU core (src/src/cpu.rs), its opcode     *)
(* table (src/src/opcodes.rs) and the memory bus (src/src/bus.rs) with the *)
(* picture-unit register window (src/src/ppu).                             *)
(*                                                                         *)
(* The CPU and the bus are carried through the helpers as one record `s`:  *)
(* the fields of struct CPU, the fields of struct Bus, and the fields that *)
(* belong to the run rather than to a struct:                              *)
(*   panicked         "" while the run is alive, else the reason of the    *)
(*                    panic!/expect/overflow abort that ended it           *)
(*   ret              the value returned by the helper that ran last       *)
(*   addr             the operand address read_operand resolved            *)
(*   code             the opcode byte of the iteration                     *)
(*   opcode_address   the address it was fetched from                      *)
(*   halted           whether the iteration returned from the loop (BRK)   *)
(*   overflow_checks  whether the build traps integer overflow (rustc's    *)
(*                    debug profile) or wraps (the release profile)        *)
(* Every helper is a no-op on a record whose run has already panicked, so  *)
(* a panic freezes the state at the point where it happened.               *)
(*                                                                         *)
(* Specifications:                                                         *)
(*   Spec          run_with_callback on one instruction in RAM or at the   *)
(*                 end of the ROM                                          *)
(*   SpecCall      ... on a JSR and the RTS at its target                  *)
(*   SpecStack     ... on PHA after PHA, and a PLA                         *)
(*   SpecStackU16  stack_push_u16 then stack_pop_u16                       *)
(*   SpecFlags     ... on PHP and PLP                                      *)
(*   SpecAdc       ... on ADC                                              *)
(*   SpecSbc       ... on SBC, its undocumented twin and ISB               *)
(*   SpecValue     ... on the instructions that write a register or a cell *)
(*   SpecCompare   ... on CMP, CPX, CPY                                    *)
(*   SpecReset     a callback that calls reset                             *)
(*   SpecLoad      load, load_and_run on a new CPU                         *)
(*   SpecRam       a callback that writes and reads the RAM window         *)
(*   SpecPpuBus    a callback that accesses the PPU register window        *)
(*   SpecRom       a callback that reads the ROM window                    *)
(*   SpecRomWrite  a callback that writes near the ROM window, or places a *)
(*                 store there                                             *)
(*   SpecUnmapped  a callback that accesses 0x4000..0x7FFF                 *)
(*   SpecWord      a callback that calls mem_write_u16 and mem_read_u16    *)
(*   SpecIndexed   ... on instructions with an indexed operand             *)
(*   SpecIndirect  ... on instructions with an indirect operand            *)
(*   SpecFrame     ... on flag instructions, transfers and stores          *)
(*   SpecShift     ... on shifts and rotations, one or nine in a row       *)
(*   SpecCount     ... on increments and decrements                        *)
(*   SpecRti       ... on RTI with its three bytes on the stack            *)
(*   SpecFused     ... on RLA, SLO, SRE, RRA, ISB in each mode             *)
(*   SpecDcp       ... on DCP in each mode, and AXS                        *)
(*   SpecPpuAddr   a callback that sets the PPU address and reads 0x2007   *)
(*   SpecMirror    NesPPU::mirror_vram_addr on addresses of 0x2000..0x3EFF *)
(***************************************************************************)
EXTENDS Integers, Sequences, FiniteSets, TLC

VARIABLES
    register_a,       \* CPU.register_a
    register_x,       \* CPU.register_x
    register_y,       \* CPU.register_y
    status,           \* CPU.status (CpuFlags bits)
    program_counter,  \* CPU.program_counter
    stack_pointer,    \* CPU.stack_pointer
    cpu_vram,         \* Bus.cpu_vram, the cells that are not 0
    prg_rom,          \* Bus.prg_rom: [len, data], data the cells that are not 0
    ppu,              \* Bus.ppu
    overflow_checks,  \* build profile: TRUE traps integer overflow
    panicked,         \* "" or the reason the process aborted
    phase,            \* position in run_with_callback
    iterations,       \* loop iterations started so far
    entry,            \* trace: the CPU as the first callback left it
    last              \* trace: what the previous loop iteration did

vars == <<register_a, register_x, register_y, status, program_counter,
          stack_pointer, cpu_vram, prg_rom, ppu, overflow_checks, panicked,
          phase, iterations, entry, last>>

---------------------------------------------------------------------------
\* Bounds of the model.

\* Loop iterations of run_with_callback explored in one run.
MaxIterations == 3

---------------------------------------------------------------------------
\* Bytes, words and bit operations.

Byte == 0..255

RECURSIVE BitAndN(_, _, _)
BitAndN(a, b, n) ==
    IF n = 0 \/ a = 0 \/ b = 0 THEN 0
    ELSE (IF a % 2 = 1 /\ b % 2 = 1 THEN 1 ELSE 0) + 2 * BitAndN(a \div 2, b \div 2, n - 1)

RECURSIVE BitXorN(_, _, _)
BitXorN(a, b, n) ==
    IF n = 0 THEN 0
    ELSE IF a = 0 THEN b
    ELSE IF b = 0 THEN a
    ELSE (IF a % 2 # b % 2 THEN 1 ELSE 0) + 2 * BitXorN(a \div 2, b \div 2, n - 1)

\* `&`, `|`, `^` on u8 and u16 operands.
BitAnd(a, b) == BitAndN(a, b, 16)
BitXor(a, b) == BitXorN(a, b, 16)
BitOr(a, b) == a + b - BitAnd(a, b)

\* u8::wrapping_add, u8::wrapping_sub, u16::wrapping_add.
wrapping_add_u8(a, b) == (a + b) % 256
wrapping_sub_u8(a, b) == (a - b + 256) % 256
wrapping_add_u16(a, b) == (a + b) % 65536

\* `as i8` then `as u16`: sign extension of a byte to 16 bits.
SignExtend(b) == IF b >= 128 THEN 65280 + b ELSE b

---------------------------------------------------------------------------
\* Arrays that start all zero are kept as the function of their non-zero cells.

EmptyArr == [i \in {} |-> 0]

ArrGet(arr, i) == IF i \in DOMAIN arr THEN arr[i] ELSE 0

ArrSet(arr, i, v) ==
    IF v = 0 THEN [j \in (DOMAIN arr) \ {i} |-> arr[j]]
    ELSE [j \in (DOMAIN arr) \cup {i} |-> IF j = i THEN v ELSE arr[j]]

---------------------------------------------------------------------------
\* CpuFlags (bitflags! in cpu.rs).

CARRY == 1
ZERO == 2
INTERRUPT_DISABLE == 4
DECIMAL_MODE == 8
BREAK == 16
BREAK2 == 32
OVERFLOW == 64
NEGATIVE == 128

\* CpuFlags::contains / insert / remove / set for a single flag bit.
contains(st, flag) == (st \div flag) % 2 = 1
insert(st, flag) == IF contains(st, flag) THEN st ELSE st + flag
remove(st, flag) == IF contains(st, flag) THEN st - flag ELSE st
set(st, flag, on) == IF on THEN insert(st, flag) ELSE remove(st, flag)

STACK == 256
STACK_RESET == 253

---------------------------------------------------------------------------
\* The threaded record.

Ok(s) == s.panicked = ""
Panic(s, why) == IF Ok(s) THEN [s EXCEPT !.panicked = why] ELSE s
Ret(s, v) == IF Ok(s) THEN [s EXCEPT !.ret = v] ELSE s
With(s, f, v) == IF Ok(s) THEN [s EXCEPT ![f] = v] ELSE s

\* Sequencing: the statements F that follow a call whose outcome is r.
Then(r, F(_)) == F(r)

\* `a + b` on u16 as the build compiles it: a trap when overflow checks are on,
\* a wrap otherwise.  `where` names the expression, and is the panic's reason.
add_u16(s, a, b, where) ==
    IF ~Ok(s) THEN s
    ELSE IF a + b > 65535
         THEN IF s.overflow_checks THEN Panic(s, where) ELSE Ret(s, (a + b) % 65536)
         ELSE Ret(s, a + b)

\* `a - b` on u16 as the build compiles it.
sub_u16(s, a, b, where) ==
    IF ~Ok(s) THEN s
    ELSE IF a - b < 0
         THEN IF s.overflow_checks THEN Panic(s, where) ELSE Ret(s, (a - b + 65536) % 65536)
         ELSE Ret(s, a - b)

\* `a + b` on u8 as the build compiles it.
add_u8(s, a, b, where) ==
    IF ~Ok(s) THEN s
    ELSE IF a + b > 255
         THEN IF s.overflow_checks THEN Panic(s, where) ELSE Ret(s, (a + b) % 256)
         ELSE Ret(s, a + b)

---------------------------------------------------------------------------
\* The picture unit behind the bus (src/src/ppu).  NesPPU as in ppu/mod.rs;
\* the fields mask, status, oam_addr and scroll hold what the register
\* operations that bus.rs calls but ppu/mod.rs does not define would keep.

\* AddrRegister::get
addr_get(r) == r.value[1] * 256 + r.value[2]

\* AddrRegister::set
addr_set(r, data) == [r EXCEPT !.value = <<data \div 256, data % 256>>]

\* The mirror-down both update and increment end with.
addr_mirror(r) == IF addr_get(r) > 16383 THEN addr_set(r, BitAnd(addr_get(r), 16383)) ELSE r

\* AddrRegister::update
addr_update(r, data) ==
    [addr_mirror(IF r.hi_ptr THEN [r EXCEPT !.value[1] = data]
                 ELSE [r EXCEPT !.value[2] = data])
        EXCEPT !.hi_ptr = ~r.hi_ptr]

\* AddrRegister::increment
addr_increment(r, inc) ==
    LET lo_before == r.value[1]
        lo_after == wrapping_add_u8(r.value[2], inc)
    IN addr_mirror([r EXCEPT !.value[2] = lo_after,
                             !.value[1] = IF lo_before > lo_after
                                          THEN wrapping_add_u8(r.value[1], 1)
                                          ELSE r.value[1]])

\* ControlRegister::vram_addr_increment (registers/control.rs is not in src/).
vram_addr_increment(ctrl) == IF (ctrl \div 4) % 2 = 1 THEN 32 ELSE 1

\* NesPPU::mirror_vram_addr; the subtractions are plain u16 `-`.
mirror_vram_addr(s, address) ==
    Then(sub_u16(s, BitAnd(address, 49151), 8192, "overflow: mirrored_vram - 0x2000"),
         LAMBDA s1 :
    LET vram_index == s1.ret
        name_table == vram_index \div 1024
        m == s.ppu.mirroring
    IN IF ~Ok(s1) THEN s1
       ELSE IF m = "Vertical" /\ name_table \in {2, 3}
       THEN sub_u16(s1, vram_index, 2048, "overflow: vram_index - 0x800")
       ELSE IF m = "Horizontal" /\ name_table \in {1, 2}
       THEN sub_u16(s1, vram_index, 1024, "overflow: vram_index - 0x400")
       ELSE IF m = "Horizontal" /\ name_table = 3
       THEN sub_u16(s1, vram_index, 2048, "overflow: vram_index - 0x800")
       ELSE Ret(s1, vram_index))

\* NesPPU::increment_vram_addr
increment_vram_addr(s) ==
    With(s, "ppu", [s.ppu EXCEPT !.addr = addr_increment(s.ppu.addr, vram_addr_increment(s.ppu.ctrl))])

\* PPU::write_to_ctrl (ControlRegister::update is not in src/).
write_to_ctrl(s, value) == With(s, "ppu", [s.ppu EXCEPT !.ctrl = value])

\* PPU::write_to_ppu_addr
write_to_ppu_addr(s, value) == With(s, "ppu", [s.ppu EXCEPT !.addr = addr_update(s.ppu.addr, value)])

\* The assignment `self.internal_data_buf = v` of PPU::read_data.
set_internal_data_buf(s, v) == With(s, "ppu", [s.ppu EXCEPT !.internal_data_buf = v])

\* PPU::read_data
read_data(s) ==
    IF ~Ok(s) THEN s
    ELSE
    Then(increment_vram_addr(s), LAMBDA s1 :
    LET address == addr_get(s.ppu.addr)
        buf == s.ppu.internal_data_buf
    IN IF address <= 8191
       THEN IF address >= s1.ppu.chr_rom.len THEN Panic(s1, "index out of bounds")
            ELSE Ret(set_internal_data_buf(s1, ArrGet(s1.ppu.chr_rom.data, address)), buf)
       ELSE IF address <= 12287
       THEN Then(mirror_vram_addr(s1, address), LAMBDA s2 :
                Ret(set_internal_data_buf(s2, ArrGet(s2.ppu.vram, s2.ret)), buf))
       ELSE IF address \in {16144, 16148, 16152, 16156}
       THEN Ret(s1, ArrGet(s1.ppu.palette_table, address - 16 - 16128))
       ELSE IF address <= 16127 THEN Panic(s1, "unimplemented")
       ELSE IF address <= 16383
       THEN IF address - 16128 >= 32 THEN Panic(s1, "index out of bounds")
            ELSE Ret(s1, ArrGet(s1.ppu.palette_table, address - 16128))
       ELSE Panic(s1, "unexpected access to mirrored space"))

\* The register operations bus.rs calls that ppu/mod.rs does not define.
read_status(s) == Ret(s, s.ppu.status)
read_oam_data(s) == Ret(s, ArrGet(s.ppu.oam_data, s.ppu.oam_addr))
write_to_mask(s, value) == With(s, "ppu", [s.ppu EXCEPT !.mask = value])
write_to_oam_addr(s, value) == With(s, "ppu", [s.ppu EXCEPT !.oam_addr = value])
write_to_oam_data(s, value) ==
    With(s, "ppu", [s.ppu EXCEPT !.oam_data = ArrSet(s.ppu.oam_data, s.ppu.oam_addr, value),
                                 !.oam_addr = wrapping_add_u8(s.ppu.oam_addr, 1)])
write_to_scroll(s, value) == With(s, "ppu", [s.ppu EXCEPT !.scroll = value])
write_to_data(s, value) ==
    IF ~Ok(s) THEN s
    ELSE
    LET address == addr_get(s.ppu.addr)
    IN IF address \in 8192..12287
       THEN Then(mirror_vram_addr(s, address), LAMBDA s2 :
                increment_vram_addr(
                    With(s2, "ppu", [s2.ppu EXCEPT !.vram = ArrSet(s2.ppu.vram, s2.ret, value)])))
       ELSE IF address \in 16128..16159
       THEN increment_vram_addr(
                With(s, "ppu", [s.ppu EXCEPT !.palette_table =
                                    ArrSet(s.ppu.palette_table, address - 16128, value)]))
       ELSE increment_vram_addr(s)

\* NesPPU::new
NesPPU_new(chr_rom, mirroring) ==
    [chr_rom |-> chr_rom, palette_table |-> EmptyArr, vram |-> EmptyArr,
     mirroring |-> mirroring, ctrl |-> 0,
     addr |-> [value |-> <<0, 0>>, hi_ptr |-> TRUE],
     oam_data |-> EmptyArr, internal_data_buf |-> 0,
     mask |-> 0, status |-> 0, oam_addr |-> 0, scroll |-> 0]

---------------------------------------------------------------------------
\* The memory bus (src/src/bus.rs).

RAM == 0
RAM_MIRRORS_END == 8191
PPU_REGISTERS == 8192
PPU_REGISTERS_MIRRORS_END == 16383

\* read_prg_rom without the wrap of a 16 KiB image: C20 does not hold of it.
read_prg_rom_unmirrored(s, address) ==
    LET a0 == address - 32768
    IN IF ~Ok(s) THEN s
       ELSE IF a0 >= s.prg_rom.len THEN Panic(s, "index out of bounds")
       ELSE Ret(s, ArrGet(s.prg_rom.data, a0))

\* Bus::read_prg_rom
read_prg_rom(s, address) ==
    LET a0 == address - 32768
        a1 == IF s.prg_rom.len = 16384 /\ a0 >= 16384 THEN a0 % 16384 ELSE a0
    IN IF ~Ok(s) THEN s
       ELSE IF a1 >= s.prg_rom.len THEN Panic(s, "index out of bounds")
       ELSE Ret(s, ArrGet(s.prg_rom.data, a1))

\* Bus::mem_read, the arms for the registers 0x2000..0x2007 and for 0x4014.
ppu_register_read(s, address) ==
    IF address \in {8192, 8193, 8195, 8197, 8198, 16404}
    THEN Panic(s, "read from write-only PPU address")
    ELSE IF address = 8194 THEN read_status(s)
    ELSE IF address = 8196 THEN read_oam_data(s)
    ELSE read_data(s)

\* mem_read with the arm 0x2008..=0x3FFF masking the address by 0x2003, four
\* registers to a mirror: C19 does not hold of it.
mem_read_mirror_of_four(s, address) ==
    IF ~Ok(s) THEN s
    ELSE IF address \in RAM..RAM_MIRRORS_END
    THEN Ret(s, ArrGet(s.cpu_vram, BitAnd(address, 2047)))
    ELSE IF address \in PPU_REGISTERS..PPU_REGISTERS_MIRRORS_END \/ address = 16404
    THEN ppu_register_read(s, IF address \in 8200..PPU_REGISTERS_MIRRORS_END
                              THEN BitAnd(address, 8195) ELSE address)
    ELSE IF address \in 32768..65535
    THEN read_prg_rom(s, address)
    ELSE Ret(s, 0)

\* Bus::mem_read (CPU::mem_read forwards to it).  The arm 0x2008..=0x3FFF calls
\* mem_read again with the address masked by 0x2007, which lands in one of the
\* register arms.
mem_read(s, address) ==
    IF ~Ok(s) THEN s
    ELSE IF address \in RAM..RAM_MIRRORS_END
    THEN Ret(s, ArrGet(s.cpu_vram, BitAnd(address, 2047)))
    ELSE IF address \in PPU_REGISTERS..PPU_REGISTERS_MIRRORS_END \/ address = 16404
    THEN ppu_register_read(s, IF address \in 8200..PPU_REGISTERS_MIRRORS_END
                              THEN BitAnd(address, 8199) ELSE address)
    ELSE IF address \in 32768..65535
    THEN read_prg_rom(s, address)
    ELSE Ret(s, 0)

\* Bus::mem_write, the arms for the registers 0x2000..0x2007.
ppu_register_write(s, address, data) ==
    CASE address = 8192 -> write_to_ctrl(s, data)
      [] address = 8193 -> write_to_mask(s, data)
      [] address = 8194 -> Panic(s, "write to PPU status register")
      [] address = 8195 -> write_to_oam_addr(s, data)
      [] address = 8196 -> write_to_oam_data(s, data)
      [] address = 8197 -> write_to_scroll(s, data)
      [] address = 8198 -> write_to_ppu_addr(s, data)
      [] OTHER -> write_to_data(s, data)

\* mem_write with the writes at 0x8000..0xFFFF ignored like those at
\* 0x4000..0x7FFF: C21 does not hold of it.
mem_write_rom_ignored(s, address, data) ==
    IF ~Ok(s) THEN s
    ELSE IF address \in RAM..RAM_MIRRORS_END
    THEN With(s, "cpu_vram", ArrSet(s.cpu_vram, BitAnd(address, 2047), data))
    ELSE IF address \in PPU_REGISTERS..PPU_REGISTERS_MIRRORS_END
    THEN ppu_register_write(s, IF address \in 8200..PPU_REGISTERS_MIRRORS_END
                               THEN BitAnd(address, 8199) ELSE address, data)
    ELSE s

\* mem_write with the RAM arm for 0x0000..0x07FF only, the three mirrors being
\* ignored: C18 does not hold of it.
mem_write_unmirrored(s, address, data) ==
    IF ~Ok(s) THEN s
    ELSE IF address \in RAM..2047
    THEN With(s, "cpu_vram", ArrSet(s.cpu_vram, address, data))
    ELSE IF address \in PPU_REGISTERS..PPU_REGISTERS_MIRRORS_END
    THEN ppu_register_write(s, IF address \in 8200..PPU_REGISTERS_MIRRORS_END
                               THEN BitAnd(address, 8199) ELSE address, data)
    ELSE IF address \in 32768..65535
    THEN Panic(s, "write on cartridge ROM space")
    ELSE s

\* Bus::mem_write (CPU::mem_write forwards to it).  The arm 0x2008..=0x3FFF
\* calls mem_write again with the address masked by 0x2007.
mem_write(s, address, data) ==
    IF ~Ok(s) THEN s
    ELSE IF address \in RAM..RAM_MIRRORS_END
    THEN With(s, "cpu_vram", ArrSet(s.cpu_vram, BitAnd(address, 2047), data))
    ELSE IF address \in PPU_REGISTERS..PPU_REGISTERS_MIRRORS_END
    THEN ppu_register_write(s, IF address \in 8200..PPU_REGISTERS_MIRRORS_END
                               THEN BitAnd(address, 8199) ELSE address, data)
    ELSE IF address \in 32768..65535
    THEN Panic(s, "write on cartridge ROM space")
    ELSE s

\* mem_read_u16 taking the byte at the lower address as the high one: C23
\* does not hold of it.
mem_read_u16_big_endian(s, address) ==
    Then(mem_read(s, address), LAMBDA s1 :
    Then(add_u16(s1, address, 1, "overflow: address + 1"), LAMBDA s2 :
    Then(mem_read(s2, s2.ret), LAMBDA s3 :
        Ret(s3, s1.ret * 256 + s3.ret))))

\* Mem::mem_read_u16 (the trait's default body, which Bus inherits)
mem_read_u16(s, address) ==
    Then(mem_read(s, address), LAMBDA s1 :
    Then(add_u16(s1, address, 1, "overflow: address + 1"), LAMBDA s2 :
    Then(mem_read(s2, s2.ret), LAMBDA s3 :
        Ret(s3, s3.ret * 256 + s1.ret))))

\* Mem::mem_write_u16
mem_write_u16(s, address, data) ==
    Then(mem_write(s, address, data % 256), LAMBDA s1 :
    Then(add_u16(s1, address, 1, "overflow: address + 1"), LAMBDA s2 :
        mem_write(s2, s2.ret, data \div 256)))

---------------------------------------------------------------------------
\* The CPU (src/src/cpu.rs): addressing, stack, flags.

\* get_absolute_address reading the high byte of the indirect-X pointer at
\* p + 1 without the wrap to the zero page: C26 does not hold of it.
get_absolute_address_pointer_unwrapped(s, mode, address) ==
    CASE mode = "Immediate" -> Ret(s, address)
      [] mode = "ZeroPage" -> mem_read(s, address)
      [] mode = "Absolute" -> mem_read_u16(s, address)
      [] mode = "ZeroPage_X" ->
            Then(mem_read(s, address), LAMBDA s1 :
                Ret(s1, wrapping_add_u8(s1.ret, s.register_x)))
      [] mode = "ZeroPage_Y" ->
            Then(mem_read(s, address), LAMBDA s1 :
                Ret(s1, wrapping_add_u8(s1.ret, s.register_y)))
      [] mode = "Absolute_X" ->
            Then(mem_read_u16(s, address), LAMBDA s1 :
                Ret(s1, wrapping_add_u16(s1.ret, s.register_x)))
      [] mode = "Absolute_Y" ->
            Then(mem_read_u16(s, address), LAMBDA s1 :
                Ret(s1, wrapping_add_u16(s1.ret, s.register_y)))
      [] mode = "Indirect_X" ->
            Then(mem_read(s, address), LAMBDA s1 :
            Then(mem_read(s1, wrapping_add_u8(s1.ret, s.register_x)), LAMBDA s2 :
            Then(mem_read(s2, wrapping_add_u8(s1.ret, s.register_x) + 1),
                 LAMBDA s3 :
                Ret(s3, s3.ret * 256 + s2.ret))))
      [] mode = "Indirect_Y" ->
            Then(mem_read(s, address), LAMBDA s1 :
            Then(mem_read(s1, s1.ret), LAMBDA s2 :
            Then(mem_read(s2, wrapping_add_u8(s1.ret, 1)), LAMBDA s3 :
                Ret(s3, wrapping_add_u16(s3.ret * 256 + s2.ret, s.register_y)))))
      [] OTHER -> Panic(s, "addressing mode is not supported")

\* CPU::get_absolute_address
get_absolute_address(s, mode, address) ==
    CASE mode = "Immediate" -> Ret(s, address)
      [] mode = "ZeroPage" -> mem_read(s, address)
      [] mode = "Absolute" -> mem_read_u16(s, address)
      [] mode = "ZeroPage_X" ->
            Then(mem_read(s, address), LAMBDA s1 :
                Ret(s1, wrapping_add_u8(s1.ret, s.register_x)))
      [] mode = "ZeroPage_Y" ->
            Then(mem_read(s, address), LAMBDA s1 :
                Ret(s1, wrapping_add_u8(s1.ret, s.register_y)))
      [] mode = "Absolute_X" ->
            Then(mem_read_u16(s, address), LAMBDA s1 :
                Ret(s1, wrapping_add_u16(s1.ret, s.register_x)))
      [] mode = "Absolute_Y" ->
            Then(mem_read_u16(s, address), LAMBDA s1 :
                Ret(s1, wrapping_add_u16(s1.ret, s.register_y)))
      [] mode = "Indirect_X" ->
            Then(mem_read(s, address), LAMBDA s1 :
            Then(mem_read(s1, wrapping_add_u8(s1.ret, s.register_x)), LAMBDA s2 :
            Then(mem_read(s2, wrapping_add_u8(wrapping_add_u8(s1.ret, s.register_x), 1)),
                 LAMBDA s3 :
                Ret(s3, s3.ret * 256 + s2.ret))))
      [] mode = "Indirect_Y" ->
            Then(mem_read(s, address), LAMBDA s1 :
            Then(mem_read(s1, s1.ret), LAMBDA s2 :
            Then(mem_read(s2, wrapping_add_u8(s1.ret, 1)), LAMBDA s3 :
                Ret(s3, wrapping_add_u16(s3.ret * 256 + s2.ret, s.register_y)))))
      [] OTHER -> Panic(s, "addressing mode is not supported")

\* CPU::get_operand_address
get_operand_address(s, mode) == get_absolute_address(s, mode, s.program_counter)

\* CPU::stack_pop
stack_pop(s) ==
    mem_read(With(s, "stack_pointer", wrapping_add_u8(s.stack_pointer, 1)),
             STACK + wrapping_add_u8(s.stack_pointer, 1))

\* stack_pop_u16 with the two popped bytes in the other order: C8 does not
\* hold of it.
stack_pop_u16_swapped(s) ==
    Then(stack_pop(s), LAMBDA s1 :
    Then(stack_pop(s1), LAMBDA s2 :
        Ret(s2, s1.ret * 256 + s2.ret)))

\* CPU::stack_pop_u16
stack_pop_u16(s) ==
    Then(stack_pop(s), LAMBDA s1 :
    Then(stack_pop(s1), LAMBDA s2 :
        Ret(s2, s2.ret * 256 + s1.ret)))

\* stack_push with a decrement that stops at 0 instead of wrapping to 0xFF:
\* C7 does not hold of it.
stack_push_no_wrap(s, data) ==
    Then(mem_write(s, STACK + s.stack_pointer, data), LAMBDA s1 :
        With(s1, "stack_pointer", IF s1.stack_pointer = 0 THEN 0 ELSE s1.stack_pointer - 1))

\* CPU::stack_push
stack_push(s, data) ==
    Then(mem_write(s, STACK + s.stack_pointer, data), LAMBDA s1 :
        With(s1, "stack_pointer", wrapping_sub_u8(s1.stack_pointer, 1)))

\* CPU::stack_push_u16
stack_push_u16(s, data) == stack_push(stack_push(s, data \div 256), data % 256)

\* update_zero_and_negative_flags that never clears ZERO: C13 does not hold
\* of it.
update_flags_sticky_zero(s, result) ==
    With(s, "status", set(IF result = 0 THEN insert(s.status, ZERO) ELSE s.status,
                          NEGATIVE, BitAnd(result, 128) # 0))

\* CPU::update_zero_and_negative_flags
update_zero_and_negative_flags(s, result) ==
    With(s, "status", set(set(s.status, ZERO, result = 0),
                          NEGATIVE, BitAnd(result, 128) # 0))

\* CPU::set_register_a
set_register_a(s, value) ==
    update_zero_and_negative_flags(With(s, "register_a", value), value)

\* set_carry_flag that also clears the zero flag: C29 does not hold of it.
set_carry_flag_clears_zero(s) == With(s, "status", remove(insert(s.status, CARRY), ZERO))

\* CPU::set_carry_flag / CPU::clear_carry_flag
set_carry_flag(s) == With(s, "status", insert(s.status, CARRY))
clear_carry_flag(s) == With(s, "status", remove(s.status, CARRY))

\* The operand fetch every memory instruction starts with:
\* get_operand_address(mode), then mem_read of that address.  The address is
\* left in field `addr`, the byte in `ret`.
read_operand(s, mode) ==
    Then(get_operand_address(s, mode), LAMBDA s1 :
        mem_read(With(s1, "addr", s1.ret), s1.ret))

---------------------------------------------------------------------------
\* Arithmetic and logic.

\* add_to_register_a without the carry-in: C10 does not hold of it.
add_to_register_a_no_carry_in(s, data) ==
    LET sum == s.register_a + data
        result == sum % 256
        overflow == BitAnd(BitAnd(BitXor(data, result), BitXor(result, s.register_a)), 128) # 0
    IN set_register_a(
           With(s, "status", set(set(s.status, CARRY, sum > 255), OVERFLOW, overflow)),
           result)

\* add_to_register_a with the overflow flag taken from the unsigned carry:
\* C11 does not hold of it.
add_to_register_a_unsigned_overflow(s, data) ==
    LET sum == s.register_a + data + (IF contains(s.status, CARRY) THEN 1 ELSE 0)
    IN set_register_a(
           With(s, "status", set(set(s.status, CARRY, sum > 255), OVERFLOW, sum > 255)),
           sum % 256)

\* CPU::add_to_register_a
add_to_register_a(s, data) ==
    LET sum == s.register_a + data + (IF contains(s.status, CARRY) THEN 1 ELSE 0)
        result == sum % 256
        overflow == BitAnd(BitAnd(BitXor(data, result), BitXor(result, s.register_a)), 128) # 0
    IN set_register_a(
           With(s, "status", set(set(s.status, CARRY, sum > 255), OVERFLOW, overflow)),
           result)

\* CPU::adc
adc(s, mode) ==
    Then(read_operand(s, mode), LAMBDA s1 : add_to_register_a(s1, s1.ret))

\* `(value as i8).wrapping_neg().wrapping_sub(1) as u8`, on the i8 of CPU::sbc.
neg_sub_1_i8(value) ==
    LET v == IF value >= 128 THEN value - 256 ELSE value
        neg == IF v = -128 THEN -128 ELSE 0 - v
        sub == IF neg - 1 < -128 THEN neg - 1 + 256 ELSE neg - 1
    IN (sub + 256) % 256

\* The two's complement in the place of neg_sub_1_u8: C12 does not hold of it.
neg_u8(data) == wrapping_sub_u8(0, data)

\* `(data as u8).wrapping_neg().wrapping_sub(1)`, on the u8 of
\* CPU::sub_from_register_a.
neg_sub_1_u8(data) == wrapping_sub_u8(wrapping_sub_u8(0, data), 1)

\* CPU::sbc
sbc(s, mode) ==
    Then(read_operand(s, mode), LAMBDA s1 : add_to_register_a(s1, neg_sub_1_i8(s1.ret)))

\* CPU::sub_from_register_a
sub_from_register_a(s, data) == add_to_register_a(s, neg_sub_1_u8(data))

\* An or_with_register_a that takes the exclusive or: C34 does not hold of it.
or_with_register_a_exclusive(s, data) == set_register_a(s, BitXor(data, s.register_a))

\* CPU::and_with_register_a / xor_with_register_a / or_with_register_a
and_with_register_a(s, data) == set_register_a(s, BitAnd(data, s.register_a))
xor_with_register_a(s, data) == set_register_a(s, BitXor(data, s.register_a))
or_with_register_a(s, data) == set_register_a(s, BitOr(data, s.register_a))

\* CPU::and / CPU::eor / CPU::ora
and(s, mode) ==
    Then(read_operand(s, mode), LAMBDA s1 : set_register_a(s1, BitAnd(s1.ret, s1.register_a)))
eor(s, mode) ==
    Then(read_operand(s, mode), LAMBDA s1 : set_register_a(s1, BitXor(s1.ret, s1.register_a)))
ora(s, mode) ==
    Then(read_operand(s, mode), LAMBDA s1 : set_register_a(s1, BitOr(s1.ret, s1.register_a)))

\* The four bit movements of the shift and rotate family, as
\* [carry out, shifted byte] of a byte and the carry before.
ShiftLeft(data, old_carry) == [carry |-> data \div 128 = 1, data |-> (data * 2) % 256]
ShiftRight(data, old_carry) == [carry |-> data % 2 = 1, data |-> data \div 2]
\* A rotation to the left that leaves bit 0 clear, as ASL does: C31 does not
\* hold of it.
RotateLeft_drops_carry(data, old_carry) ==
    [carry |-> data \div 128 = 1, data |-> (data * 2) % 256]
RotateLeft(data, old_carry) ==
    [carry |-> data \div 128 = 1,
     data |-> BitOr((data * 2) % 256, IF old_carry THEN 1 ELSE 0)]
RotateRight(data, old_carry) ==
    [carry |-> data % 2 = 1,
     data |-> BitOr(data \div 2, IF old_carry THEN 128 ELSE 0)]

\* What follows the bit movement m in CPU::asl, lsr, rol and ror: set the carry
\* to the bit moved out, write the moved byte back, update Z and N, return
\* the byte.
shift_store(s, m) ==
    Then(mem_write(With(s, "status", set(s.status, CARRY, m.carry)), s.addr, m.data),
         LAMBDA s1 : Ret(update_zero_and_negative_flags(s1, m.data), m.data))

\* The body shared by CPU::asl, lsr, rol and ror.
shift_memory(s, mode, r(_, _)) ==
    Then(read_operand(s, mode), LAMBDA s1 :
        shift_store(s1, r(s1.ret, contains(s1.status, CARRY))))

\* The body shared by CPU::asl_accumulator, lsr_accumulator, rol_accumulator
\* and ror_accumulator.
shift_accumulator(s, r(_, _)) ==
    LET m == r(s.register_a, contains(s.status, CARRY))
    IN set_register_a(With(s, "status", set(s.status, CARRY, m.carry)), m.data)

asl(s, mode) == shift_memory(s, mode, ShiftLeft)
asl_accumulator(s) == shift_accumulator(s, ShiftLeft)
lsr(s, mode) == shift_memory(s, mode, ShiftRight)
lsr_accumulator(s) == shift_accumulator(s, ShiftRight)
rol(s, mode) == shift_memory(s, mode, RotateLeft)
rol_accumulator(s) == shift_accumulator(s, RotateLeft)
ror(s, mode) == shift_memory(s, mode, RotateRight)
ror_accumulator(s) == shift_accumulator(s, RotateRight)

\* What follows the operand fetch in CPU::inc and CPU::dec: write the new
\* byte back, update Z and N, return the byte.
store_back(s, data) ==
    Then(mem_write(s, s.addr, data), LAMBDA s1 :
        Ret(update_zero_and_negative_flags(s1, data), data))

\* CPU::inc / CPU::dec
inc(s, mode) ==
    Then(read_operand(s, mode), LAMBDA s1 : store_back(s1, wrapping_add_u8(s1.ret, 1)))
dec(s, mode) ==
    Then(read_operand(s, mode), LAMBDA s1 : store_back(s1, wrapping_sub_u8(s1.ret, 1)))

\* CPU::inx / iny / dex / dey
\* An INX that stops at 0xFF instead of wrapping: C32 does not hold of it.
inx_saturating(s) ==
    LET v == IF s.register_x = 255 THEN 255 ELSE s.register_x + 1
    IN update_zero_and_negative_flags(With(s, "register_x", v), v)
inx(s) ==
    LET v == wrapping_add_u8(s.register_x, 1)
    IN update_zero_and_negative_flags(With(s, "register_x", v), v)
iny(s) ==
    LET v == wrapping_add_u8(s.register_y, 1)
    IN update_zero_and_negative_flags(With(s, "register_y", v), v)
dex(s) ==
    LET v == wrapping_sub_u8(s.register_x, 1)
    IN update_zero_and_negative_flags(With(s, "register_x", v), v)
dey(s) ==
    LET v == wrapping_sub_u8(s.register_y, 1)
    IN update_zero_and_negative_flags(With(s, "register_y", v), v)

\* compare with the carry set only when the operand is strictly below the
\* register: C14 does not hold of it.
compare_strict(s, mode, compare_with) ==
    Then(read_operand(s, mode), LAMBDA s1 :
        update_zero_and_negative_flags(
            With(s1, "status", set(s1.status, CARRY, s1.ret < compare_with)),
            wrapping_sub_u8(compare_with, s1.ret)))

\* CPU::compare
compare(s, mode, compare_with) ==
    Then(read_operand(s, mode), LAMBDA s1 :
        update_zero_and_negative_flags(
            With(s1, "status", set(s1.status, CARRY, s1.ret <= compare_with)),
            wrapping_sub_u8(compare_with, s1.ret)))

\* CPU::branch
branch(s, condition) ==
    IF condition
    THEN Then(mem_read(s, s.program_counter), LAMBDA s1 :
             With(s1, "program_counter",
                  wrapping_add_u16(wrapping_add_u16(s1.program_counter, 1),
                                   SignExtend(s1.ret))))
    ELSE s

\* CPU::bit
bit(s, mode) ==
    Then(read_operand(s, mode), LAMBDA s1 :
        With(s1, "status",
             set(set(set(s1.status, ZERO, BitAnd(s1.register_a, s1.ret) = 0),
                     NEGATIVE, BitAnd(s1.ret, 128) > 0),
                 OVERFLOW, BitAnd(s1.ret, 64) > 0)))

\* CPU::lda / ldx / ldy
lda(s, mode) ==
    Then(read_operand(s, mode), LAMBDA s1 : set_register_a(s1, s1.ret))
ldx(s, mode) ==
    Then(read_operand(s, mode), LAMBDA s1 :
        update_zero_and_negative_flags(With(s1, "register_x", s1.ret), s1.ret))
ldy(s, mode) ==
    Then(read_operand(s, mode), LAMBDA s1 :
        update_zero_and_negative_flags(With(s1, "register_y", s1.ret), s1.ret))

\* CPU::sta, and the STX / STY / SAX arms: store a byte at the operand address.
store(s, mode, data) ==
    Then(get_operand_address(s, mode), LAMBDA s1 : mem_write(s1, s1.ret, data))
sta(s, mode) == store(s, mode, s.register_a)

\* CPU::tax
tax(s) == update_zero_and_negative_flags(With(s, "register_x", s.register_a), s.register_a)

\* CPU::pla
pla(s) == Then(stack_pop(s), LAMBDA s1 : set_register_a(s1, s1.ret))

\* php pushing the status byte as it is: C9 does not hold of it.
php_as_is(s) == stack_push(s, s.status)

\* CPU::php
php(s) == stack_push(s, insert(insert(s.status, BREAK), BREAK2))

\* CPU::plp
plp(s) ==
    Then(stack_pop(s), LAMBDA s1 :
        With(s1, "status", insert(remove(s1.ret, BREAK), BREAK2)))

---------------------------------------------------------------------------
\* The opcode table (src/src/opcodes.rs).

\* OpCode::new
OpCode(code, mnemonic, len, cycles, mode) ==
    [code |-> code, mnemonic |-> mnemonic, len |-> len, cycles |-> cycles, mode |-> mode]

\* CPU_OPS_CODES, entry by entry in the order of the vec! literal.
CPU_OPS_CODES == <<
    OpCode(0, "BRK", 1, 7, "NoneAddressing"),    \* 0x00
    OpCode(234, "NOP", 1, 2, "NoneAddressing"),    \* 0xea
    OpCode(105, "ADC", 2, 2, "Immediate"),    \* 0x69
    OpCode(101, "ADC", 2, 3, "ZeroPage"),    \* 0x65
    OpCode(117, "ADC", 2, 4, "ZeroPage_X"),    \* 0x75
    OpCode(109, "ADC", 3, 4, "Absolute"),    \* 0x6d
    OpCode(125, "ADC", 3, 4, "Absolute_X"),    \* 0x7d
    OpCode(121, "ADC", 3, 4, "Absolute_Y"),    \* 0x79
    OpCode(97, "ADC", 2, 6, "Indirect_X"),    \* 0x61
    OpCode(113, "ADC", 2, 5, "Indirect_Y"),    \* 0x71
    OpCode(233, "SBC", 2, 2, "Immediate"),    \* 0xe9
    OpCode(229, "SBC", 2, 3, "ZeroPage"),    \* 0xe5
    OpCode(245, "SBC", 2, 4, "ZeroPage_X"),    \* 0xf5
    OpCode(237, "SBC", 3, 4, "Absolute"),    \* 0xed
    OpCode(253, "SBC", 3, 4, "Absolute_X"),    \* 0xfd
    OpCode(249, "SBC", 3, 4, "Absolute_Y"),    \* 0xf9
    OpCode(225, "SBC", 2, 6, "Indirect_X"),    \* 0xe1
    OpCode(241, "SBC", 2, 5, "Indirect_Y"),    \* 0xf1
    OpCode(41, "AND", 2, 2, "Immediate"),    \* 0x29
    OpCode(37, "AND", 2, 3, "ZeroPage"),    \* 0x25
    OpCode(53, "AND", 2, 4, "ZeroPage_X"),    \* 0x35
    OpCode(45, "AND", 3, 4, "Absolute"),    \* 0x2d
    OpCode(61, "AND", 3, 4, "Absolute_X"),    \* 0x3d
    OpCode(57, "AND", 3, 4, "Absolute_Y"),    \* 0x39
    OpCode(33, "AND", 2, 6, "Indirect_X"),    \* 0x21
    OpCode(49, "AND", 2, 5, "Indirect_Y"),    \* 0x31
    OpCode(73, "EOR", 2, 2, "Immediate"),    \* 0x49
    OpCode(69, "EOR", 2, 3, "ZeroPage"),    \* 0x45
    OpCode(85, "EOR", 2, 4, "ZeroPage_X"),    \* 0x55
    OpCode(77, "EOR", 3, 4, "Absolute"),    \* 0x4d
    OpCode(93, "EOR", 3, 4, "Absolute_X"),    \* 0x5d
    OpCode(89, "EOR", 3, 4, "Absolute_Y"),    \* 0x59
    OpCode(65, "EOR", 2, 6, "Indirect_X"),    \* 0x41
    OpCode(81, "EOR", 2, 5, "Indirect_Y"),    \* 0x51
    OpCode(9, "ORA", 2, 2, "Immediate"),    \* 0x09
    OpCode(5, "ORA", 2, 3, "ZeroPage"),    \* 0x05
    OpCode(21, "ORA", 2, 4, "ZeroPage_X"),    \* 0x15
    OpCode(13, "ORA", 3, 4, "Absolute"),    \* 0x0d
    OpCode(29, "ORA", 3, 4, "Absolute_X"),    \* 0x1d
    OpCode(25, "ORA", 3, 4, "Absolute_Y"),    \* 0x19
    OpCode(1, "ORA", 2, 6, "Indirect_X"),    \* 0x01
    OpCode(17, "ORA", 2, 5, "Indirect_Y"),    \* 0x11
    OpCode(10, "ASL", 1, 2, "NoneAddressing"),    \* 0x0a
    OpCode(6, "ASL", 2, 5, "ZeroPage"),    \* 0x06
    OpCode(22, "ASL", 2, 6, "ZeroPage_X"),    \* 0x16
    OpCode(14, "ASL", 3, 6, "Absolute"),    \* 0x0e
    OpCode(30, "ASL", 3, 7, "Absolute_X"),    \* 0x1e
    OpCode(74, "LSR", 1, 2, "NoneAddressing"),    \* 0x4a
    OpCode(70, "LSR", 2, 5, "ZeroPage"),    \* 0x46
    OpCode(86, "LSR", 2, 6, "ZeroPage_X"),    \* 0x56
    OpCode(78, "LSR", 3, 6, "Absolute"),    \* 0x4e
    OpCode(94, "LSR", 3, 7, "Absolute_X"),    \* 0x5e
    OpCode(42, "ROL", 1, 2, "NoneAddressing"),    \* 0x2a
    OpCode(38, "ROL", 2, 5, "ZeroPage"),    \* 0x26
    OpCode(54, "ROL", 2, 6, "ZeroPage_X"),    \* 0x36
    OpCode(46, "ROL", 3, 6, "Absolute"),    \* 0x2e
    OpCode(62, "ROL", 3, 7, "Absolute_X"),    \* 0x3e
    OpCode(106, "ROR", 1, 2, "NoneAddressing"),    \* 0x6a
    OpCode(102, "ROR", 2, 5, "ZeroPage"),    \* 0x66
    OpCode(118, "ROR", 2, 6, "ZeroPage_X"),    \* 0x76
    OpCode(110, "ROR", 3, 6, "Absolute"),    \* 0x6e
    OpCode(126, "ROR", 3, 7, "Absolute_X"),    \* 0x7e
    OpCode(230, "INC", 2, 5, "ZeroPage"),    \* 0xe6
    OpCode(246, "INC", 2, 6, "ZeroPage_X"),    \* 0xf6
    OpCode(238, "INC", 3, 6, "Absolute"),    \* 0xee
    OpCode(254, "INC", 3, 7, "Absolute_X"),    \* 0xfe
    OpCode(232, "INX", 1, 2, "NoneAddressing"),    \* 0xe8
    OpCode(200, "INY", 1, 2, "NoneAddressing"),    \* 0xc8
    OpCode(198, "DEC", 2, 5, "ZeroPage"),    \* 0xc6
    OpCode(214, "DEC", 2, 6, "ZeroPage_X"),    \* 0xd6
    OpCode(206, "DEC", 3, 6, "Absolute"),    \* 0xce
    OpCode(222, "DEC", 3, 7, "Absolute_X"),    \* 0xde
    OpCode(202, "DEX", 1, 2, "NoneAddressing"),    \* 0xca
    OpCode(136, "DEY", 1, 2, "NoneAddressing"),    \* 0x88
    OpCode(201, "CMP", 2, 2, "Immediate"),    \* 0xc9
    OpCode(197, "CMP", 2, 3, "ZeroPage"),    \* 0xc5
    OpCode(213, "CMP", 2, 4, "ZeroPage_X"),    \* 0xd5
    OpCode(205, "CMP", 3, 4, "Absolute"),    \* 0xcd
    OpCode(221, "CMP", 3, 4, "Absolute_X"),    \* 0xdd
    OpCode(217, "CMP", 3, 4, "Absolute_Y"),    \* 0xd9
    OpCode(193, "CMP", 2, 6, "Indirect_X"),    \* 0xc1
    OpCode(209, "CMP", 2, 5, "Indirect_Y"),    \* 0xd1
    OpCode(192, "CPY", 2, 2, "Immediate"),    \* 0xc0
    OpCode(196, "CPY", 2, 3, "ZeroPage"),    \* 0xc4
    OpCode(204, "CPY", 3, 4, "Absolute"),    \* 0xcc
    OpCode(224, "CPX", 2, 2, "Immediate"),    \* 0xe0
    OpCode(228, "CPX", 2, 3, "ZeroPage"),    \* 0xe4
    OpCode(236, "CPX", 3, 4, "Absolute"),    \* 0xec
    OpCode(76, "JMP", 3, 3, "NoneAddressing"),    \* 0x4c
    OpCode(108, "JMP", 3, 5, "NoneAddressing"),    \* 0x6c
    OpCode(32, "JSR", 3, 6, "NoneAddressing"),    \* 0x20
    OpCode(96, "RTS", 1, 6, "NoneAddressing"),    \* 0x60
    OpCode(64, "RTI", 1, 6, "NoneAddressing"),    \* 0x40
    OpCode(208, "BNE", 2, 2, "NoneAddressing"),    \* 0xd0
    OpCode(112, "BVS", 2, 2, "NoneAddressing"),    \* 0x70
    OpCode(80, "BVC", 2, 2, "NoneAddressing"),    \* 0x50
    OpCode(48, "BMI", 2, 2, "NoneAddressing"),    \* 0x30
    OpCode(240, "BEQ", 2, 2, "NoneAddressing"),    \* 0xf0
    OpCode(176, "BCS", 2, 2, "NoneAddressing"),    \* 0xb0
    OpCode(144, "BCC", 2, 2, "NoneAddressing"),    \* 0x90
    OpCode(16, "BPL", 2, 2, "NoneAddressing"),    \* 0x10
    OpCode(36, "BIT", 2, 3, "ZeroPage"),    \* 0x24
    OpCode(44, "BIT", 3, 4, "Absolute"),    \* 0x2c
    OpCode(169, "LDA", 2, 2, "Immediate"),    \* 0xa9
    OpCode(165, "LDA", 2, 3, "ZeroPage"),    \* 0xa5
    OpCode(181, "LDA", 2, 4, "ZeroPage_X"),    \* 0xb5
    OpCode(173, "LDA", 3, 4, "Absolute"),    \* 0xad
    OpCode(189, "LDA", 3, 4, "Absolute_X"),    \* 0xbd
    OpCode(185, "LDA", 3, 4, "Absolute_Y"),    \* 0xb9
    OpCode(161, "LDA", 2, 6, "Indirect_X"),    \* 0xa1
    OpCode(177, "LDA", 2, 5, "Indirect_Y"),    \* 0xb1
    OpCode(162, "LDX", 2, 2, "Immediate"),    \* 0xa2
    OpCode(166, "LDX", 2, 3, "ZeroPage"),    \* 0xa6
    OpCode(182, "LDX", 2, 4, "ZeroPage_Y"),    \* 0xb6
    OpCode(174, "LDX", 3, 4, "Absolute"),    \* 0xae
    OpCode(190, "LDX", 3, 4, "Absolute_Y"),    \* 0xbe
    OpCode(160, "LDY", 2, 2, "Immediate"),    \* 0xa0
    OpCode(164, "LDY", 2, 3, "ZeroPage"),    \* 0xa4
    OpCode(180, "LDY", 2, 4, "ZeroPage_X"),    \* 0xb4
    OpCode(172, "LDY", 3, 4, "Absolute"),    \* 0xac
    OpCode(188, "LDY", 3, 4, "Absolute_X"),    \* 0xbc
    OpCode(133, "STA", 2, 3, "ZeroPage"),    \* 0x85
    OpCode(149, "STA", 2, 4, "ZeroPage_X"),    \* 0x95
    OpCode(141, "STA", 3, 4, "Absolute"),    \* 0x8d
    OpCode(157, "STA", 3, 5, "Absolute_X"),    \* 0x9d
    OpCode(153, "STA", 3, 5, "Absolute_Y"),    \* 0x99
    OpCode(129, "STA", 2, 6, "Indirect_X"),    \* 0x81
    OpCode(145, "STA", 2, 6, "Indirect_Y"),    \* 0x91
    OpCode(134, "STX", 2, 3, "ZeroPage"),    \* 0x86
    OpCode(150, "STX", 2, 4, "ZeroPage_Y"),    \* 0x96
    OpCode(142, "STX", 3, 4, "Absolute"),    \* 0x8e
    OpCode(132, "STY", 2, 3, "ZeroPage"),    \* 0x84
    OpCode(148, "STY", 2, 4, "ZeroPage_X"),    \* 0x94
    OpCode(140, "STY", 3, 4, "Absolute"),    \* 0x8c
    OpCode(216, "CLD", 1, 2, "NoneAddressing"),    \* 0xd8
    OpCode(88, "CLI", 1, 2, "NoneAddressing"),    \* 0x58
    OpCode(184, "CLV", 1, 2, "NoneAddressing"),    \* 0xb8
    OpCode(24, "CLC", 1, 2, "NoneAddressing"),    \* 0x18
    OpCode(56, "SEC", 1, 2, "NoneAddressing"),    \* 0x38
    OpCode(120, "SEI", 1, 2, "NoneAddressing"),    \* 0x78
    OpCode(248, "SED", 1, 2, "NoneAddressing"),    \* 0xf8
    OpCode(170, "TAX", 1, 2, "NoneAddressing"),    \* 0xaa
    OpCode(168, "TAY", 1, 2, "NoneAddressing"),    \* 0xa8
    OpCode(186, "TSX", 1, 2, "NoneAddressing"),    \* 0xba
    OpCode(138, "TXA", 1, 2, "NoneAddressing"),    \* 0x8a
    OpCode(154, "TXS", 1, 2, "NoneAddressing"),    \* 0x9a
    OpCode(152, "TYA", 1, 2, "NoneAddressing"),    \* 0x98
    OpCode(72, "PHA", 1, 3, "NoneAddressing"),    \* 0x48
    OpCode(104, "PLA", 1, 4, "NoneAddressing"),    \* 0x68
    OpCode(8, "PHP", 1, 3, "NoneAddressing"),    \* 0x08
    OpCode(40, "PLP", 1, 4, "NoneAddressing"),    \* 0x28
    OpCode(199, "*DCP", 2, 5, "ZeroPage"),    \* 0xc7
    OpCode(215, "*DCP", 2, 6, "ZeroPage_X"),    \* 0xd7
    OpCode(207, "*DCP", 3, 6, "Absolute"),    \* 0xcf
    OpCode(223, "*DCP", 3, 7, "Absolute_X"),    \* 0xdf
    OpCode(219, "*DCP", 3, 7, "Absolute_Y"),    \* 0xdb
    OpCode(211, "*DCP", 2, 8, "Indirect_Y"),    \* 0xd3
    OpCode(195, "*DCP", 2, 8, "Indirect_X"),    \* 0xc3
    OpCode(39, "*RLA", 2, 5, "ZeroPage"),    \* 0x27
    OpCode(55, "*RLA", 2, 6, "ZeroPage_X"),    \* 0x37
    OpCode(47, "*RLA", 3, 6, "Absolute"),    \* 0x2f
    OpCode(63, "*RLA", 3, 7, "Absolute_X"),    \* 0x3f
    OpCode(59, "*RLA", 3, 7, "Absolute_Y"),    \* 0x3b
    OpCode(51, "*RLA", 2, 8, "Indirect_Y"),    \* 0x33
    OpCode(35, "*RLA", 2, 8, "Indirect_X"),    \* 0x23
    OpCode(7, "*SLO", 2, 5, "ZeroPage"),    \* 0x07
    OpCode(23, "*SLO", 2, 6, "ZeroPage_X"),    \* 0x17
    OpCode(15, "*SLO", 3, 6, "Absolute"),    \* 0x0f
    OpCode(31, "*SLO", 3, 7, "Absolute_X"),    \* 0x1f
    OpCode(27, "*SLO", 3, 7, "Absolute_Y"),    \* 0x1b
    OpCode(3, "*SLO", 2, 8, "Indirect_X"),    \* 0x03
    OpCode(19, "*SLO", 2, 8, "Indirect_Y"),    \* 0x13
    OpCode(71, "*SRE", 2, 5, "ZeroPage"),    \* 0x47
    OpCode(87, "*SRE", 2, 6, "ZeroPage_X"),    \* 0x57
    OpCode(79, "*SRE", 3, 6, "Absolute"),    \* 0x4f
    OpCode(95, "*SRE", 3, 7, "Absolute_X"),    \* 0x5f
    OpCode(91, "*SRE", 3, 7, "Absolute_Y"),    \* 0x5b
    OpCode(67, "*SRE", 2, 8, "Indirect_X"),    \* 0x43
    OpCode(83, "*SRE", 2, 8, "Indirect_Y"),    \* 0x53
    OpCode(128, "*NOP", 2, 2, "Immediate"),    \* 0x80
    OpCode(130, "*NOP", 2, 2, "Immediate"),    \* 0x82
    OpCode(137, "*NOP", 2, 2, "Immediate"),    \* 0x89
    OpCode(194, "*NOP", 2, 2, "Immediate"),    \* 0xc2
    OpCode(226, "*NOP", 2, 2, "Immediate"),    \* 0xe2
    OpCode(203, "*AXS", 2, 2, "Immediate"),    \* 0xcb
    OpCode(107, "*ARR", 2, 2, "Immediate"),    \* 0x6b
    OpCode(235, "*SBC", 2, 2, "Immediate"),    \* 0xeb
    OpCode(11, "*ANC", 2, 2, "Immediate"),    \* 0x0b
    OpCode(43, "*ANC", 2, 2, "Immediate"),    \* 0x2b
    OpCode(75, "*ALR", 2, 2, "Immediate"),    \* 0x4b
    OpCode(4, "*NOP", 2, 3, "ZeroPage"),    \* 0x04
    OpCode(68, "*NOP", 2, 3, "ZeroPage"),    \* 0x44
    OpCode(100, "*NOP", 2, 3, "ZeroPage"),    \* 0x64
    OpCode(20, "*NOP", 2, 4, "ZeroPage_X"),    \* 0x14
    OpCode(52, "*NOP", 2, 4, "ZeroPage_X"),    \* 0x34
    OpCode(84, "*NOP", 2, 4, "ZeroPage_X"),    \* 0x54
    OpCode(116, "*NOP", 2, 4, "ZeroPage_X"),    \* 0x74
    OpCode(212, "*NOP", 2, 4, "ZeroPage_X"),    \* 0xd4
    OpCode(244, "*NOP", 2, 4, "ZeroPage_X"),    \* 0xf4
    OpCode(12, "*NOP", 3, 4, "Absolute"),    \* 0x0c
    OpCode(28, "*NOP", 3, 4, "Absolute_X"),    \* 0x1c
    OpCode(60, "*NOP", 3, 4, "Absolute_X"),    \* 0x3c
    OpCode(92, "*NOP", 3, 4, "Absolute_X"),    \* 0x5c
    OpCode(124, "*NOP", 3, 4, "Absolute_X"),    \* 0x7c
    OpCode(220, "*NOP", 3, 4, "Absolute_X"),    \* 0xdc
    OpCode(252, "*NOP", 3, 4, "Absolute_X"),    \* 0xfc
    OpCode(103, "*RRA", 2, 5, "ZeroPage"),    \* 0x67
    OpCode(119, "*RRA", 2, 6, "ZeroPage_X"),    \* 0x77
    OpCode(111, "*RRA", 3, 6, "Absolute"),    \* 0x6f
    OpCode(127, "*RRA", 3, 7, "Absolute_X"),    \* 0x7f
    OpCode(123, "*RRA", 3, 7, "Absolute_Y"),    \* 0x7b
    OpCode(99, "*RRA", 2, 8, "Indirect_X"),    \* 0x63
    OpCode(115, "*RRA", 2, 8, "Indirect_Y"),    \* 0x73
    OpCode(231, "*ISB", 2, 5, "ZeroPage"),    \* 0xe7
    OpCode(247, "*ISB", 2, 6, "ZeroPage_X"),    \* 0xf7
    OpCode(239, "*ISB", 3, 6, "Absolute"),    \* 0xef
    OpCode(255, "*ISB", 3, 7, "Absolute_X"),    \* 0xff
    OpCode(251, "*ISB", 3, 7, "Absolute_Y"),    \* 0xfb
    OpCode(227, "*ISB", 2, 8, "Indirect_X"),    \* 0xe3
    OpCode(243, "*ISB", 2, 8, "Indirect_Y"),    \* 0xf3
    OpCode(2, "*NOP", 1, 2, "NoneAddressing"),    \* 0x02
    OpCode(18, "*NOP", 1, 2, "NoneAddressing"),    \* 0x12
    OpCode(34, "*NOP", 1, 2, "NoneAddressing"),    \* 0x22
    OpCode(50, "*NOP", 1, 2, "NoneAddressing"),    \* 0x32
    OpCode(66, "*NOP", 1, 2, "NoneAddressing"),    \* 0x42
    OpCode(82, "*NOP", 1, 2, "NoneAddressing"),    \* 0x52
    OpCode(98, "*NOP", 1, 2, "NoneAddressing"),    \* 0x62
    OpCode(114, "*NOP", 1, 2, "NoneAddressing"),    \* 0x72
    OpCode(146, "*NOP", 1, 2, "NoneAddressing"),    \* 0x92
    OpCode(178, "*NOP", 1, 2, "NoneAddressing"),    \* 0xb2
    OpCode(210, "*NOP", 1, 2, "NoneAddressing"),    \* 0xd2
    OpCode(242, "*NOP", 1, 2, "NoneAddressing"),    \* 0xf2
    OpCode(26, "*NOP", 1, 2, "NoneAddressing"),    \* 0x1a
    OpCode(58, "*NOP", 1, 2, "NoneAddressing"),    \* 0x3a
    OpCode(90, "*NOP", 1, 2, "NoneAddressing"),    \* 0x5a
    OpCode(122, "*NOP", 1, 2, "NoneAddressing"),    \* 0x7a
    OpCode(218, "*NOP", 1, 2, "NoneAddressing"),    \* 0xda
    OpCode(250, "*NOP", 1, 2, "NoneAddressing"),    \* 0xfa
    OpCode(171, "*LXA", 2, 3, "Immediate"),    \* 0xab
    OpCode(139, "*XAA", 2, 3, "Immediate"),    \* 0x8b
    OpCode(187, "*LAS", 3, 2, "Absolute_Y"),    \* 0xbb
    OpCode(155, "*TAS", 3, 2, "Absolute_Y"),    \* 0x9b
    OpCode(147, "*AHX", 2, 8, "Indirect_Y"),    \* 0x93
    OpCode(159, "*AHX", 3, 4, "Absolute_Y"),    \* 0x9f
    OpCode(158, "*SHX", 3, 4, "Absolute_Y"),    \* 0x9e
    OpCode(156, "*SHY", 3, 4, "Absolute_X"),    \* 0x9c
    OpCode(167, "*LAX", 2, 3, "ZeroPage"),    \* 0xa7
    OpCode(183, "*LAX", 2, 4, "ZeroPage_Y"),    \* 0xb7
    OpCode(175, "*LAX", 3, 4, "Absolute"),    \* 0xaf
    OpCode(191, "*LAX", 3, 4, "Absolute_Y"),    \* 0xbf
    OpCode(163, "*LAX", 2, 6, "Indirect_X"),    \* 0xa3
    OpCode(179, "*LAX", 2, 5, "Indirect_Y"),    \* 0xb3
    OpCode(135, "*SAX", 2, 3, "ZeroPage"),    \* 0x87
    OpCode(151, "*SAX", 2, 4, "ZeroPage_Y"),    \* 0x97
    OpCode(143, "*SAX", 3, 4, "Absolute"),    \* 0x8f
    OpCode(131, "*SAX", 2, 6, "Indirect_X")     \* 0x83
    >>

\* The map built from the documented instructions alone, the first 151
\* entries of the table: C24 does not hold of it.
OPCODES_MAP_documented ==
    [c \in {CPU_OPS_CODES[i].code : i \in 1..151} |->
        CPU_OPS_CODES[CHOOSE i \in 1..151 : CPU_OPS_CODES[i].code = c]]

\* The map with every descriptor's mode lost (NoneAddressing): C36 does not
\* hold of it.
OPCODES_MAP_modeless ==
    [c \in {CPU_OPS_CODES[i].code : i \in DOMAIN CPU_OPS_CODES} |->
        [CPU_OPS_CODES[CHOOSE i \in DOMAIN CPU_OPS_CODES : CPU_OPS_CODES[i].code = c]
            EXCEPT !.mode = "NoneAddressing"]]

\* The map with the absolute modes given the len of the zero-page ones: C37
\* does not hold of it.
OPCODES_MAP_short_absolute ==
    [c \in {CPU_OPS_CODES[i].code : i \in DOMAIN CPU_OPS_CODES} |->
        LET e == CPU_OPS_CODES[CHOOSE i \in DOMAIN CPU_OPS_CODES : CPU_OPS_CODES[i].code = c]
        IN IF e.mode \in {"Absolute", "Absolute_X", "Absolute_Y"}
           THEN [e EXCEPT !.len = 2] ELSE e]

\* OPCODES_MAP: the HashMap filled by inserting every entry of CPU_OPS_CODES in
\* order, so that a later entry with the same code replaces an earlier one.
OPCODES_MAP ==
    [c \in {CPU_OPS_CODES[i].code : i \in DOMAIN CPU_OPS_CODES} |->
        CPU_OPS_CODES[CHOOSE i \in DOMAIN CPU_OPS_CODES :
            /\ CPU_OPS_CODES[i].code = c
            /\ \A j \in DOMAIN CPU_OPS_CODES : CPU_OPS_CODES[j].code = c => j <= i]]

---------------------------------------------------------------------------
\* The instructions whose body is written in the match arm of
\* CPU::run_with_callback itself.

\* 0x4c JMP absolute
jmp_absolute(s) ==
    Then(mem_read_u16(s, s.program_counter), LAMBDA s1 :
        With(s1, "program_counter", s1.ret))

\* 0x6c JMP indirect, the read of the target word through the pointer
\* mem_address: a pointer in the last byte of a page takes the high byte from
\* the start of the same page.
read_indirect_ref(s, mem_address) ==
    IF BitAnd(mem_address, 255) = 255
    THEN Then(mem_read(s, mem_address), LAMBDA t1 :
         Then(mem_read(t1, BitAnd(mem_address, 65280)), LAMBDA t2 :
             Ret(t2, t2.ret * 256 + t1.ret)))
    ELSE mem_read_u16(s, mem_address)

\* 0x6c JMP indirect
jmp_indirect(s) ==
    Then(mem_read_u16(s, s.program_counter), LAMBDA s1 :
    Then(read_indirect_ref(s1, s1.ret), LAMBDA s2 :
        With(s2, "program_counter", s2.ret)))

\* 0x20 JSR
jsr(s) ==
    Then(add_u16(s, s.program_counter, 2, "overflow: program_counter + 2"), LAMBDA s1 :
    Then(sub_u16(s1, s1.ret, 1, "overflow: program_counter + 2 - 1"), LAMBDA s2 :
    Then(stack_push_u16(s2, s2.ret), LAMBDA s3 :
    Then(mem_read_u16(s3, s3.program_counter), LAMBDA s4 :
        With(s4, "program_counter", s4.ret)))))

\* 0x60 RTS
rts(s) ==
    Then(stack_pop_u16(s), LAMBDA s1 :
    Then(add_u16(s1, s1.ret, 1, "overflow: stack_pop_u16() + 1"), LAMBDA s2 :
        With(s2, "program_counter", s2.ret)))

\* An RTI that resumes one past the address popped, as RTS does: C33 does not
\* hold of it.
rti_as_rts(s) ==
    Then(stack_pop(s), LAMBDA s1 :
    Then(stack_pop_u16(With(s1, "status", insert(remove(s1.ret, BREAK), BREAK2))),
         LAMBDA s2 :
        With(s2, "program_counter", (s2.ret + 1) % 65536)))
\* 0x40 RTI
rti(s) ==
    Then(stack_pop(s), LAMBDA s1 :
    Then(stack_pop_u16(With(s1, "status", insert(remove(s1.ret, BREAK), BREAK2))),
         LAMBDA s2 :
        With(s2, "program_counter", s2.ret)))

\* DCP
dcp(s, mode) ==
    Then(read_operand(s, mode), LAMBDA s1 :
    Then(mem_write(s1, s1.addr, wrapping_sub_u8(s1.ret, 1)), LAMBDA s2 :
        update_zero_and_negative_flags(
            IF wrapping_sub_u8(s1.ret, 1) <= s2.register_a
            THEN With(s2, "status", insert(s2.status, CARRY))
            ELSE s2,
            wrapping_sub_u8(s2.register_a, wrapping_sub_u8(s1.ret, 1)))))

\* AXS
axs(s, mode) ==
    Then(read_operand(s, mode), LAMBDA s1 :
        LET data == s1.ret
            x_and_a == BitAnd(s1.register_x, s1.register_a)
            result == wrapping_sub_u8(x_and_a, data)
        IN With(update_zero_and_negative_flags(
                    IF data <= x_and_a
                    THEN With(s1, "status", insert(s1.status, CARRY))
                    ELSE s1,
                    result),
                "register_x", result))

\* ARR
arr(s, mode) ==
    Then(read_operand(s, mode), LAMBDA s1 :
    Then(ror_accumulator(and_with_register_a(s1, s1.ret)), LAMBDA s3 :
        LET result == s3.register_a
            bit_5 == (result \div 32) % 2
            bit_6 == (result \div 64) % 2
        IN update_zero_and_negative_flags(
               With(s3, "status", set(set(s3.status, CARRY, bit_6 = 1),
                                      OVERFLOW, bit_5 # bit_6)),
               result)))

\* ANC
anc(s, mode) ==
    Then(read_operand(s, mode), LAMBDA s1 :
    Then(and_with_register_a(s1, s1.ret), LAMBDA s2 :
        With(s2, "status", set(s2.status, CARRY, contains(s2.status, NEGATIVE)))))

\* ALR
alr(s, mode) ==
    Then(read_operand(s, mode), LAMBDA s1 :
        lsr_accumulator(and_with_register_a(s1, s1.ret)))

\* LAX
lax(s, mode) ==
    Then(read_operand(s, mode), LAMBDA s1 :
        With(set_register_a(s1, s1.ret), "register_x", s1.ret))

\* XAA
xaa(s, mode) ==
    Then(read_operand(
             update_zero_and_negative_flags(With(s, "register_a", s.register_x),
                                            s.register_x),
             mode),
         LAMBDA s2 : and_with_register_a(s2, s2.ret))

\* LAS
las(s, mode) ==
    Then(read_operand(s, mode), LAMBDA s1 :
        LET data == BitAnd(s1.ret, s1.stack_pointer)
        IN update_zero_and_negative_flags(
               With(With(With(s1, "register_a", data), "register_x", data),
                    "stack_pointer", data),
               data))

\* The address `mem_read_u16(program_counter) + register` of TAS, AHX
\* absolute Y, SHX and SHY: a plain u16 `+`.
absolute_plus(s, register) ==
    Then(mem_read_u16(s, s.program_counter), LAMBDA s1 :
        add_u16(s1, s1.ret, register, "overflow: mem_read_u16 + register"))

\* The store `mem_write(mem_address, register & ((mem_address >> 8) as u8 + 1))`
\* TAS, SHX and SHY end with: a plain u8 `+`.
store_and_hi_plus_1(s, mem_address, register) ==
    Then(add_u8(s, mem_address \div 256, 1, "overflow: (mem_address >> 8) as u8 + 1"),
         LAMBDA s1 : mem_write(s1, mem_address, BitAnd(register, s1.ret)))

\* TAS
tas(s) ==
    Then(absolute_plus(With(s, "stack_pointer", BitAnd(s.register_a, s.register_x)),
                       s.register_y),
         LAMBDA s1 : store_and_hi_plus_1(s1, s1.ret, s1.stack_pointer))

\* AHX indirect Y
ahx_indirect_y(s) ==
    Then(mem_read(s, s.program_counter), LAMBDA s1 :
    Then(mem_read_u16(s1, s1.ret), LAMBDA s2 :
    Then(add_u16(s2, s2.ret, s2.register_y, "overflow: mem_read_u16 + register"),
         LAMBDA s3 :
        mem_write(s3, s3.ret,
                  BitAnd(BitAnd(s3.register_a, s3.register_x), s3.ret \div 256)))))

\* AHX absolute Y
ahx_absolute_y(s) ==
    Then(absolute_plus(s, s.register_y), LAMBDA s1 :
        mem_write(s1, s1.ret,
                  BitAnd(BitAnd(s1.register_a, s1.register_x), s1.ret \div 256)))

\* SHX
shx(s) ==
    Then(absolute_plus(s, s.register_y), LAMBDA s1 :
        store_and_hi_plus_1(s1, s1.ret, s1.register_x))

\* SHY
shy(s) ==
    Then(absolute_plus(s, s.register_x), LAMBDA s1 :
        store_and_hi_plus_1(s1, s1.ret, s1.register_y))

\* A transfer that leaves the flags alone, as TXS does: C30 does not hold of
\* it.
transfer_without_flags(s, to, value) == With(s, to, value)

\* A register-to-register transfer that updates Z and N (TAY, TSX, TXA, TYA).
transfer(s, to, value) == update_zero_and_negative_flags(With(s, to, value), value)

---------------------------------------------------------------------------
\* The match on the opcode byte in CPU::run_with_callback.  `opcode` is the
\* descriptor found in OPCODES_MAP.  BRK (0x00) returns from the run: it is
\* marked in field `halted`.

BranchCodes == {208, 112, 80, 48, 240, 176, 144, 16}

\* The flag test of each branch arm.
branch_condition(s, code) ==
    CASE code = 208 -> ~contains(s.status, ZERO)
      [] code = 112 -> contains(s.status, OVERFLOW)
      [] code = 80 -> ~contains(s.status, OVERFLOW)
      [] code = 48 -> contains(s.status, NEGATIVE)
      [] code = 240 -> contains(s.status, ZERO)
      [] code = 176 -> contains(s.status, CARRY)
      [] code = 144 -> ~contains(s.status, CARRY)
      [] code = 16 -> ~contains(s.status, NEGATIVE)

dispatch(s, code, opcode) ==
    LET mode == opcode.mode IN
    CASE code \in {105, 101, 117, 109, 125, 121, 97, 113} -> adc(s, mode)
      [] code \in {233, 229, 245, 237, 253, 249, 225, 241} -> sbc(s, mode)
      [] code \in {41, 37, 53, 45, 61, 57, 33, 49} -> and(s, mode)
      [] code \in {73, 69, 85, 77, 93, 89, 65, 81} -> eor(s, mode)
      [] code \in {9, 5, 21, 13, 29, 25, 1, 17} -> ora(s, mode)
      [] code = 10 -> asl_accumulator(s)
      [] code \in {6, 22, 14, 30} -> asl(s, mode)
      [] code = 74 -> lsr_accumulator(s)
      [] code \in {70, 86, 78, 94} -> lsr(s, mode)
      [] code = 42 -> rol_accumulator(s)
      [] code \in {38, 54, 46, 62} -> rol(s, mode)
      [] code = 106 -> ror_accumulator(s)
      [] code \in {102, 118, 110, 126} -> ror(s, mode)
      [] code \in {230, 246, 238, 254} -> inc(s, mode)
      [] code = 232 -> inx(s)
      [] code = 200 -> iny(s)
      [] code \in {198, 214, 206, 222} -> dec(s, mode)
      [] code = 202 -> dex(s)
      [] code = 136 -> dey(s)
      [] code \in {201, 197, 213, 205, 221, 217, 193, 209} -> compare(s, mode, s.register_a)
      [] code \in {192, 196, 204} -> compare(s, mode, s.register_y)
      [] code \in {224, 228, 236} -> compare(s, mode, s.register_x)
      [] code = 76 -> jmp_absolute(s)
      [] code = 108 -> jmp_indirect(s)
      [] code = 32 -> jsr(s)
      [] code = 96 -> rts(s)
      [] code = 64 -> rti(s)
      [] code \in BranchCodes -> branch(s, branch_condition(s, code))
      [] code \in {36, 44} -> bit(s, mode)
      [] code \in {169, 165, 181, 173, 189, 185, 161, 177} -> lda(s, mode)
      [] code \in {162, 166, 182, 174, 190} -> ldx(s, mode)
      [] code \in {160, 164, 180, 172, 188} -> ldy(s, mode)
      [] code \in {133, 149, 141, 157, 153, 129, 145} -> sta(s, mode)
      [] code \in {134, 150, 142} -> store(s, mode, s.register_x)
      [] code \in {132, 148, 140} -> store(s, mode, s.register_y)
      [] code = 216 -> With(s, "status", remove(s.status, DECIMAL_MODE))
      [] code = 88 -> With(s, "status", remove(s.status, INTERRUPT_DISABLE))
      [] code = 184 -> With(s, "status", remove(s.status, OVERFLOW))
      [] code = 24 -> clear_carry_flag(s)
      [] code = 56 -> set_carry_flag(s)
      [] code = 120 -> With(s, "status", insert(s.status, INTERRUPT_DISABLE))
      [] code = 248 -> With(s, "status", insert(s.status, DECIMAL_MODE))
      [] code = 170 -> tax(s)
      [] code = 168 -> transfer(s, "register_y", s.register_a)
      [] code = 186 -> transfer(s, "register_x", s.stack_pointer)
      [] code = 138 -> transfer(s, "register_a", s.register_x)
      [] code = 154 -> With(s, "stack_pointer", s.register_x)
      [] code = 152 -> transfer(s, "register_a", s.register_y)
      [] code = 72 -> stack_push(s, s.register_a)
      [] code = 104 -> pla(s)
      [] code = 8 -> php(s)
      [] code = 40 -> plp(s)
      [] code \in {199, 215, 207, 223, 219, 211, 195} -> dcp(s, mode)
      [] code \in {39, 55, 47, 63, 59, 51, 35} ->
            Then(rol(s, mode), LAMBDA s1 : and_with_register_a(s1, s1.ret))
      [] code \in {7, 23, 15, 31, 27, 3, 19} ->
            Then(asl(s, mode), LAMBDA s1 : or_with_register_a(s1, s1.ret))
      [] code \in {71, 87, 79, 95, 91, 67, 83} ->
            Then(lsr(s, mode), LAMBDA s1 : xor_with_register_a(s1, s1.ret))
      [] code \in {128, 130, 137, 194, 226} -> s
      [] code = 203 -> axs(s, mode)
      [] code = 107 -> arr(s, mode)
      [] code = 235 ->
            Then(read_operand(s, mode), LAMBDA s1 : sub_from_register_a(s1, s1.ret))
      [] code \in {11, 43} -> anc(s, mode)
      [] code = 75 -> alr(s, mode)
      [] code \in {4, 68, 100, 20, 52, 84, 116, 212, 244, 12, 28,
                   60, 92, 124, 220, 252} -> read_operand(s, mode)
      [] code \in {103, 119, 111, 127, 123, 99, 115} ->
            Then(ror(s, mode), LAMBDA s1 : add_to_register_a(s1, s1.ret))
      [] code \in {231, 247, 239, 255, 251, 227, 243} ->
            Then(inc(s, mode), LAMBDA s1 : sub_from_register_a(s1, s1.ret))
      [] code \in {2, 18, 34, 50, 66, 82, 98, 114, 146, 178, 210, 242} -> s
      [] code \in {26, 58, 90, 122, 218, 250} -> s
      [] code \in {167, 183, 175, 191, 163, 179} -> lax(s, mode)
      [] code \in {135, 151, 143, 131} ->
            store(s, mode, BitAnd(s.register_a, s.register_x))
      [] code = 171 -> tax(lda(s, mode))
      [] code = 139 -> xaa(s, mode)
      [] code = 187 -> las(s, mode)
      [] code = 155 -> tas(s)
      [] code = 147 -> ahx_indirect_y(s)
      [] code = 159 -> ahx_absolute_y(s)
      [] code = 158 -> shx(s)
      [] code = 156 -> shy(s)
      [] code = 234 -> s
      [] code = 0 -> With(s, "halted", TRUE)

\* An iteration whose BRK pushes the program counter and the status before
\* the run ends, as the interrupt sequence of the 6502 does: C38 does not hold
\* of it.
run_iteration_brk_pushes(s) ==
    Then(mem_read(s, s.program_counter), LAMBDA s1 :
    Then(add_u16(With(With(s1, "code", s1.ret), "opcode_address", s.program_counter),
                 s.program_counter, 1, "overflow: program_counter += 1"),
         LAMBDA s3 :
    Then(With(s3, "program_counter", s3.ret), LAMBDA s4 :
        IF ~Ok(s4) THEN s4
        ELSE IF s4.code \notin DOMAIN OPCODES_MAP
        THEN Panic(s4, "OpCode is not recognized")
        ELSE
        Then(dispatch(s4, s4.code, OPCODES_MAP[s4.code]), LAMBDA s5 :
            IF ~Ok(s5) THEN s5
            ELSE IF s5.halted
            THEN Then(stack_push_u16(s5, s5.program_counter), LAMBDA s6 :
                     stack_push(s6, s6.status))
            ELSE IF s4.program_counter = s5.program_counter
            THEN Then(add_u16(s5, s5.program_counter, OPCODES_MAP[s4.code].len - 1,
                              "overflow: program_counter += len - 1"),
                      LAMBDA s6 : With(s6, "program_counter", s6.ret))
            ELSE s5))))

\* One iteration of the loop of CPU::run_with_callback after the callback has
\* returned: fetch, look up, dispatch, advance.  Field `code` keeps the byte
\* fetched and `opcode_address` where it was fetched, for the trace.
run_iteration(s) ==
    Then(mem_read(s, s.program_counter), LAMBDA s1 :
    Then(add_u16(With(With(s1, "code", s1.ret), "opcode_address", s.program_counter),
                 s.program_counter, 1, "overflow: program_counter += 1"),
         LAMBDA s3 :
    Then(With(s3, "program_counter", s3.ret), LAMBDA s4 :
        IF ~Ok(s4) THEN s4
        ELSE IF s4.code \notin DOMAIN OPCODES_MAP
        THEN Panic(s4, "OpCode is not recognized")
        ELSE
        Then(dispatch(s4, s4.code, OPCODES_MAP[s4.code]), LAMBDA s5 :
            IF ~Ok(s5) \/ s5.halted THEN s5
            ELSE IF s4.program_counter = s5.program_counter
            THEN Then(add_u16(s5, s5.program_counter, OPCODES_MAP[s4.code].len - 1,
                              "overflow: program_counter += len - 1"),
                      LAMBDA s6 : With(s6, "program_counter", s6.ret))
            ELSE s5))))

---------------------------------------------------------------------------
\* Construction: Rom, Bus::new, CPU::new.

\* A cartridge image as Bus::new receives it (struct Rom): prg_rom of `len`
\* bytes holding `head` at its start and `tail` at its end, zero elsewhere; an
\* 8 KiB chr_rom of zeros; the mirroring flag.
MakeRom(len, head, tail, mirroring) ==
    [prg_rom |-> [len |-> len,
                  data |-> [i \in {j \in (0..(Len(head) - 1)) \cup ((len - Len(tail))..(len - 1)) :
                                     (IF j < Len(head) THEN head[j + 1]
                                      ELSE tail[j - (len - Len(tail)) + 1]) # 0}
                            |-> IF i < Len(head) THEN head[i + 1]
                                ELSE tail[i - (len - Len(tail)) + 1]]],
     chr_rom |-> [len |-> 8192, data |-> EmptyArr],
     screen_mirroring |-> mirroring]

\* The images the runs start from: the programs of the tests of cpu.rs at the
\* start of a 16 KiB and of a 32 KiB image.  The last three bytes
\* (0xFFFD..0xFFFF) hold JSR, LDA immediate and NOP opcode bytes in the first
\* image, and JSR 0x0300 in the second (whose last byte, 0x03, is the opcode
\* of SLO indirect X).  With the byte before them they make the word at
\* 0xFFFC/0xFFFD, 0x2034 in the first image and 0x2001 in the second.
RomImages ==
    { MakeRom(16384, <<169, 5, 0>>, <<52, 32, 169, 234>>, "Horizontal"),
      MakeRom(32768, <<165, 16, 0>>, <<1, 32, 0, 3>>, "Vertical") }

\* The record the helpers thread, from the variables.
CpuRec ==
    [register_a |-> register_a, register_x |-> register_x, register_y |-> register_y,
     status |-> status, program_counter |-> program_counter,
     stack_pointer |-> stack_pointer, cpu_vram |-> cpu_vram, prg_rom |-> prg_rom,
     ppu |-> ppu, overflow_checks |-> overflow_checks, panicked |-> panicked,
     ret |-> 0, addr |-> 0, halted |-> FALSE, code |-> -1, opcode_address |-> -1]

\* What the trace keeps of a CPU record.
Snapshot(s) ==
    [register_a |-> s.register_a, register_x |-> s.register_x,
     register_y |-> s.register_y, status |-> s.status,
     program_counter |-> s.program_counter, stack_pointer |-> s.stack_pointer,
     cpu_vram |-> s.cpu_vram, ppu |-> s.ppu]

\* The trace of the last operation: the opcode and its address (-1 when the
\* operation is not an instruction); the name, the argument and the returned
\* value of a method applied on its own ("" when the operation is an
\* instruction); the CPU before the operation.
NoTrace ==
    [code |-> -1, opcode_address |-> -1, call |-> "", arg |-> 0, ret |-> 0,
     before |-> << >>]

\* The variables take the fields of record t.
Becomes(t) ==
    /\ register_a' = t.register_a
    /\ register_x' = t.register_x
    /\ register_y' = t.register_y
    /\ status' = t.status
    /\ program_counter' = t.program_counter
    /\ stack_pointer' = t.stack_pointer
    /\ cpu_vram' = t.cpu_vram
    /\ prg_rom' = t.prg_rom
    /\ ppu' = t.ppu
    /\ panicked' = t.panicked

\* CPU::new(Bus::new(rom)), then the call of run_with_callback: the loop is
\* about to invoke the callback for the first time.
Init ==
    /\ \E rom \in RomImages :
        /\ prg_rom = rom.prg_rom
        /\ ppu = NesPPU_new(rom.chr_rom, rom.screen_mirroring)
    /\ overflow_checks \in BOOLEAN
    /\ register_a = 0
    /\ register_x = 0
    /\ register_y = 0
    /\ status = 36
    /\ program_counter = 32768
    /\ stack_pointer = STACK_RESET
    /\ cpu_vram = EmptyArr
    /\ panicked = ""
    /\ phase = "callback"
    /\ iterations = 0
    /\ entry = << >>
    /\ last = NoTrace

---------------------------------------------------------------------------
\* The callback: `callback(self)` at the top of the loop.  It gets &mut CPU,
\* so it may assign the public registers and write memory through mem_write.

\* A callback writes the bytes of `bytes` at consecutive addresses from `at`.
RECURSIVE write_bytes(_, _, _)
write_bytes(s, at, bytes) ==
    IF bytes = << >> THEN s
    ELSE write_bytes(mem_write(s, at, Head(bytes)), (at + 1) % 65536, Tail(bytes))

\* A callback writes each block [at, bytes] of `writes` in turn.
RECURSIVE write_blocks(_, _)
write_blocks(s, writes) ==
    IF writes = << >> THEN s
    ELSE write_blocks(write_bytes(s, Head(writes).at, Head(writes).bytes), Tail(writes))

\* What a callback does with the CPU: nothing (the closure of CPU::run), or
\* it assigns the registers of `c` and writes the blocks of c.writes.
callback_effect(s, c) ==
    IF c.kind = "idle" THEN s
    ELSE write_blocks([s EXCEPT !.register_a = c.a, !.register_x = c.x,
                                !.register_y = c.y, !.status = c.status,
                                !.stack_pointer = c.sp, !.program_counter = c.pc],
                      c.writes)

Idle == [kind |-> "idle"]

Block(at, bytes) == [at |-> at, bytes |-> bytes]

Setup(pc, a, x, y, st, sp, writes) ==
    [kind |-> "setup", pc |-> pc, a |-> a, x |-> x, y |-> y, status |-> st,
     sp |-> sp, writes |-> writes]

\* The callback invoked by a loop that goes on after BRK's return: C15 does
\* not hold of it.
InvokeCallbackAfterReturn(c) ==
    /\ phase \in {"callback", "halted"}
    /\ Then(callback_effect(CpuRec, c), LAMBDA t :
            /\ Becomes(t)
            /\ phase' = IF Ok(t) THEN "fetch" ELSE "aborted"
            /\ entry' = IF iterations = 0 THEN Snapshot(t) ELSE entry)
    /\ iterations' = iterations + 1
    /\ UNCHANGED <<overflow_checks, last>>

\* A loop that counts two invocations of the callback for one fetch: C28 does
\* not hold of it.
InvokeCallbackTwice(c) ==
    /\ phase = "callback"
    /\ Then(callback_effect(callback_effect(CpuRec, c), c), LAMBDA t :
            /\ Becomes(t)
            /\ phase' = IF Ok(t) THEN "fetch" ELSE "aborted"
            /\ entry' = IF iterations = 0 THEN Snapshot(t) ELSE entry)
    /\ iterations' = iterations + 2
    /\ UNCHANGED <<overflow_checks, last>>

\* The loop invokes the callback, which acts as `c`, and goes on to the fetch.
InvokeCallback(c) ==
    /\ phase = "callback"
    /\ Then(callback_effect(CpuRec, c), LAMBDA t :
            /\ Becomes(t)
            /\ phase' = IF Ok(t) THEN "fetch" ELSE "aborted"
            /\ entry' = IF iterations = 0 THEN Snapshot(t) ELSE entry)
    /\ iterations' = iterations + 1
    /\ UNCHANGED <<overflow_checks, last>>

\* The rest of the iteration: fetch, decode, dispatch, advance.
Step ==
    /\ phase = "fetch"
    /\ Then(run_iteration(CpuRec), LAMBDA t :
            /\ Becomes(t)
            /\ phase' = IF ~Ok(t) THEN "aborted" ELSE IF t.halted THEN "halted" ELSE "callback"
            /\ last' = [code |-> t.code, opcode_address |-> t.opcode_address,
                        call |-> "", arg |-> 0, ret |-> t.ret,
                        before |-> Snapshot(CpuRec)])
    /\ UNCHANGED <<overflow_checks, iterations, entry>>

\* The loop iteration runs with the closure of CPU::run, `|_| {}`.
CallbackIdle ==
    /\ iterations < MaxIterations
    /\ InvokeCallback(Idle)

---------------------------------------------------------------------------
\* Spec: run_with_callback on a fresh CPU.  The callback is idle, or on its
\* first invocation it places one instruction in RAM and the CPU in front of
\* it, or in front of the last bytes of the ROM.

\* Where the first callback places an instruction: RAM after the stack page.
ProgramAddresses == {512}

\* The operand bytes it writes, low byte first: 0x0201 (the instruction's own
\* operand), 0x0203 (the instruction after it), 0x00FF (end of the zero page;
\* displacement -1), 0x8010 (ROM), 0x2002 (the picture unit's status
\* register), 0xFFFF (the last address).
OperandPairs == { <<1, 2>>, <<3, 2>>, <<255, 0>>, <<16, 128>>, <<2, 32>>, <<255, 255>> }

\* Register files it sets: <<a, x, y, status, sp>>.
RegisterFiles == { <<0, 0, 0, 36, STACK_RESET>>, <<128, 1, 255, 231, 0>> }

\* The first invocation puts any opcode byte with two operand bytes at a
\* program address and points the CPU at it.
CallbackPoke ==
    /\ iterations = 0
    /\ \E at \in ProgramAddresses, code \in Byte, ops \in OperandPairs, r \in RegisterFiles :
         InvokeCallback(Setup(at, r[1], r[2], r[3], r[4], r[5],
                              << Block(at, <<code, ops[1], ops[2]>>) >>))

\* The first invocation puts a branch with any displacement at a program
\* address.
CallbackBranch ==
    /\ iterations = 0
    /\ \E at \in ProgramAddresses, code \in BranchCodes, disp \in Byte, r \in RegisterFiles :
         InvokeCallback(Setup(at, r[1], r[2], r[3], r[4], r[5],
                              << Block(at, <<code, disp>>) >>))

\* The first invocation points the CPU at one of the last three ROM bytes.
CallbackGoto ==
    /\ iterations = 0
    /\ \E pc \in 65533..65535, r \in RegisterFiles :
         InvokeCallback(Setup(pc, r[1], r[2], r[3], r[4], r[5], << >>))

Next == CallbackIdle \/ CallbackPoke \/ CallbackBranch \/ CallbackGoto \/ Step

Spec == Init /\ [][Next]_vars

---------------------------------------------------------------------------
\* Reading the trace.

\* The byte a snapshot holds at a RAM address (mirrored) or the cartridge
\* holds at a ROM address; 0 elsewhere.
ByteAt(snap, address) ==
    IF address <= 8191 THEN ArrGet(snap.cpu_vram, address % 2048)
    ELSE IF address >= 32768 THEN ArrGet(prg_rom.data, (address - 32768) % prg_rom.len)
    ELSE 0

\* The little-endian word at address and address + 1.
WordAt(snap, address) ==
    ByteAt(snap, address) + 256 * ByteAt(snap, (address + 1) % 65536)

\* A loop iteration has run to its end or to its abort; `last` describes it.
JustStepped == last.code # -1 /\ phase \in {"callback", "halted", "aborted"}

\* The opcodes that assign program_counter: the branches, JMP absolute and
\* indirect, JSR, RTS, RTI; and BRK, which ends the run.
ControlCodes == BranchCodes \cup {76, 108, 32, 96, 64, 0}

\* The aborts that are an integer overflow in program-counter arithmetic.
PcOverflows ==
    { "overflow: program_counter += 1", "overflow: program_counter += len - 1",
      "overflow: program_counter + 2", "overflow: program_counter + 2 - 1",
      "overflow: stack_pop_u16() + 1" }

\* The iteration `last` describes did not abort for a reason other than
\* program-counter arithmetic.
NoOtherAbort == panicked = "" \/ panicked \in PcOverflows

\* The flag condition of a branch mnemonic on a status byte.
BranchTaken(mnemonic, st) ==
    CASE mnemonic = "BNE" -> ~contains(st, ZERO)
      [] mnemonic = "BEQ" -> contains(st, ZERO)
      [] mnemonic = "BCS" -> contains(st, CARRY)
      [] mnemonic = "BCC" -> ~contains(st, CARRY)
      [] mnemonic = "BMI" -> contains(st, NEGATIVE)
      [] mnemonic = "BPL" -> ~contains(st, NEGATIVE)
      [] mnemonic = "BVS" -> contains(st, OVERFLOW)
      [] mnemonic = "BVC" -> ~contains(st, OVERFLOW)

---------------------------------------------------------------------------
\* Claims about the program counter.

\* C1: for every opcode that is not a branch, jump, JSR, RTS, RTI or BRK, one
\* iteration of run_with_callback leaves program_counter equal to (address of
\* the opcode byte + the descriptor's len) mod 65536.
C1_AdvancesByLen ==
    (JustStepped /\ last.code \notin ControlCodes /\ NoOtherAbort)
        => /\ panicked = ""
           /\ program_counter = (last.opcode_address + OPCODES_MAP[last.code].len) % 65536

\* C2: a branch whose flag condition holds sets program_counter to (address of
\* the byte after the operand byte + sign-extended operand) mod 65536, for
\* every displacement, 0xFF included; a branch whose condition does not hold
\* ends at opcode address + 2.
C2_BranchTarget ==
    (JustStepped /\ last.code \in BranchCodes /\ panicked = "")
        => LET p == last.opcode_address
               disp == ByteAt(last.before, (p + 1) % 65536)
           IN program_counter =
                  IF BranchTaken(OPCODES_MAP[last.code].mnemonic, last.before.status)
                  THEN (p + 2 + SignExtend(disp)) % 65536
                  ELSE (p + 2) % 65536

\* C3: JMP absolute (0x4C) sets program_counter to exactly its little-endian
\* 16-bit operand, for every target, the address after the opcode byte
\* included.
C3_JmpAbsolute ==
    (JustStepped /\ last.code = 76 /\ panicked = "")
        => program_counter = WordAt(last.before, (last.opcode_address + 1) % 65536)

\* C4: JMP indirect (0x6C) with pointer p sets program_counter to the word
\* whose low byte is at p and whose high byte is at p + 1, or at p AND 0xFF00
\* when the low byte of p is 0xFF.
C4_JmpIndirect ==
    (JustStepped /\ last.code = 108 /\ panicked = "")
        => LET p == WordAt(last.before, (last.opcode_address + 1) % 65536)
               lo == ByteAt(last.before, p)
               hi == ByteAt(last.before, IF p % 256 = 255 THEN p - 255 ELSE p + 1)
           IN program_counter = hi * 256 + lo

\* C6: no step faults on program-counter arithmetic: the fetch at 0xFFFF, the
\* len - 1 advance, JSR's return address and RTS's + 1 wrap modulo 65536, so
\* program_counter is always a 16-bit value and the run never aborts because
\* of it.
C6_NoPcFault ==
    /\ program_counter \in 0..65535
    /\ panicked \notin PcOverflows

---------------------------------------------------------------------------
\* SpecCall: run_with_callback where the first callback sets up a subroutine
\* call (a JSR, and an RTS at its target), or a return (an RTS, and a return
\* address on the stack).

\* Where the JSR is: RAM after the stack page, the last three bytes of RAM
\* (the instruction after it is at 0x0800, a mirror of 0x0000), the last
\* three bytes of the ROM (whatever JSR the image holds there).
CallSites == {512, 2045, 65533}

\* Where the JSR jumps to, given its own address p.  In RAM: the page after,
\* the byte after the opcode byte, the instruction after the JSR, the zero
\* page.  In the ROM: 0x0300, the operand in the 32 KiB image.
CallTargets(p) ==
    IF p >= 32768 THEN {768}
    ELSE {768, (p + 1) % 65536, (p + 3) % 65536, 16}

\* Stack pointers at the JSR or RTS: CPU::new's, and those where the two
\* bytes straddle the wrap.
CallStackPointers == {STACK_RESET, 0, 1, 255}

\* Return addresses found on the stack by a lone RTS.
ReturnWords == {65535, 511, 512, 4659}

\* The first invocation writes an RTS at t, then (in RAM) JSR t at p, and
\* points the CPU at p.
CallbackCall ==
    /\ iterations = 0
    /\ \E p \in CallSites, sp \in CallStackPointers :
         \E t \in CallTargets(p) :
            InvokeCallback(Setup(p, 0, 0, 0, 36, sp,
                IF p >= 32768 THEN << Block(t, <<96>>) >>
                ELSE << Block(t, <<96>>), Block(p, <<32, t % 256, t \div 256>>) >>))

\* The first invocation writes an RTS at a program address and the word w
\* where the RTS will pop it.
CallbackReturn ==
    /\ iterations = 0
    /\ \E at \in ProgramAddresses, w \in ReturnWords, sp \in CallStackPointers :
         InvokeCallback(Setup(at, 0, 0, 0, 36, sp,
             << Block(STACK + wrapping_add_u8(sp, 1), << w % 256 >>),
                Block(STACK + wrapping_add_u8(sp, 2), << w \div 256 >>),
                Block(at, <<96>>) >>))

NextCall == CallbackIdle \/ CallbackCall \/ CallbackReturn \/ Step

SpecCall == Init /\ [][NextCall]_vars

\* The first callback left the CPU in front of a JSR.
EntryAtJsr == entry # << >> /\ ByteAt(entry, entry.program_counter) = 32

\* C5: JSR at p pushes a 16-bit return address, high byte first, and jumps to
\* its operand; the RTS executed next, with the stack as the JSR left it, sets
\* program_counter to p + 3 and restores the stack pointer to its value before
\* the JSR; for every p and every target.
C5_CallReturn ==
    /\ (iterations = 1 /\ JustStepped /\ last.code = 32 /\ NoOtherAbort)
         => LET p == last.opcode_address
                sp == last.before.stack_pointer
            IN /\ panicked = ""
               /\ ByteAt(CpuRec, STACK + sp) = ((p + 2) % 65536) \div 256
               /\ ByteAt(CpuRec, STACK + wrapping_sub_u8(sp, 1)) = ((p + 2) % 65536) % 256
               /\ stack_pointer = wrapping_sub_u8(sp, 2)
               /\ program_counter = WordAt(last.before, (p + 1) % 65536)
    /\ (iterations = 2 /\ JustStepped /\ last.code = 96 /\ EntryAtJsr /\ NoOtherAbort)
         => /\ panicked = ""
            /\ program_counter = (entry.program_counter + 3) % 65536
            /\ stack_pointer = entry.stack_pointer

---------------------------------------------------------------------------
\* SpecStack: run_with_callback where the callback keeps the CPU in front of
\* one PHA (0x48), and at last of one PLA (0x68).

MaxPushes == 256

\* The stack pointers the first callback chooses from: CPU::new's 0xFD and its
\* neighbour, both sides of the 0x00/0xFF wrap, both sides of the sign bit.
\* The pushes that follow take the stack pointer through all 256 values from
\* each of them.
StackStarts == {STACK_RESET, 254, 255, 0, 1, 2, 127, 128}

\* The byte the callback puts in register_a before a PHA: the complement of
\* the stack pointer, so that neighbouring stack cells get different bytes.
PushData(sp) == 255 - sp

\* The callback writes a PHA at 0x0200 and points the CPU at it; on its first
\* invocation it also chooses the stack pointer.
CallbackPush ==
    /\ iterations < MaxPushes
    /\ last.code # 104
    /\ \E sp \in (IF iterations = 0 THEN StackStarts ELSE {stack_pointer}) :
         InvokeCallback(Setup(512, PushData(sp), register_x, register_y, status, sp,
                              << Block(512, <<72>>) >>))

\* The callback writes a PLA at 0x0200 and points the CPU at it; the run is
\* not followed beyond that PLA.
CallbackPull ==
    /\ iterations <= MaxPushes
    /\ last.code # 104
    /\ \E sp \in (IF iterations = 0 THEN StackStarts ELSE {stack_pointer}) :
         InvokeCallback(Setup(512, register_a, register_x, register_y, status, sp,
                              << Block(512, <<104>>) >>))

NextStack == CallbackPush \/ CallbackPull \/ Step

SpecStack == Init /\ [][NextStack]_vars

\* C7: the stack pointer is an 8-bit value that wraps modulo 256: a push
\* writes at 0x0100 + SP and nowhere else, then decrements SP with
\* wraparound; a pop increments SP with wraparound, then reads at
\* 0x0100 + SP; every stack access is in 0x0100..0x01FF; 256 consecutive
\* pushes from any starting value return the stack pointer to it.
C7_StackPointerWraps ==
    /\ stack_pointer \in 0..255
    /\ panicked = ""
    /\ (JustStepped /\ last.code = 72)
         => LET sp == last.before.stack_pointer
            IN /\ 256 + sp \in 256..511
               /\ cpu_vram = ArrSet(last.before.cpu_vram, 256 + sp, last.before.register_a)
               /\ stack_pointer = (sp + 255) % 256
    /\ (JustStepped /\ last.code = 104)
         => LET sp == (last.before.stack_pointer + 1) % 256
            IN /\ 256 + sp \in 256..511
               /\ stack_pointer = sp
               /\ register_a = ArrGet(last.before.cpu_vram, 256 + sp)
               /\ cpu_vram = last.before.cpu_vram
    /\ (JustStepped /\ last.code = 72 /\ iterations = 256)
         => stack_pointer = entry.stack_pointer

\* 256 pushes from 0xFD have come back to 0xFD, having written every byte of
\* the stack page.
C7_Witness ==
    /\ JustStepped /\ last.code = 72 /\ iterations = 256
    /\ entry.stack_pointer = 253 /\ stack_pointer = 253
    /\ \A i \in 256..511 : ArrGet(cpu_vram, i) = PushData(i - 256)

\* A PLA after 256 pushes from 0x00 has read the byte of the last push, at
\* 0x0101.
C7_WitnessPull ==
    /\ JustStepped /\ last.code = 104 /\ iterations = 257
    /\ entry.stack_pointer = 0 /\ stack_pointer = 1
    /\ register_a = PushData(1)

---------------------------------------------------------------------------
\* SpecStackU16: CPU::stack_push_u16 and CPU::stack_pop_u16 applied on their
\* own, one after the other, on a CPU whose stack pointer the callback chose.

\* The bytes the pushed words are made of.
WordBytes == {0, 1, 18, 52, 127, 128, 255}

\* The first invocation of the callback assigns any stack pointer.
CallbackStackPointer ==
    /\ iterations = 0
    /\ \E sp \in Byte :
         InvokeCallback(Setup(program_counter, register_a, register_x, register_y,
                              status, sp, << >>))

\* self.stack_push_u16(v)
StackPushU16 ==
    /\ phase = "fetch"
    /\ \E hi \in WordBytes, lo \in WordBytes :
         Then(stack_push_u16(CpuRec, hi * 256 + lo), LAMBDA t :
             /\ Becomes(t)
             /\ phase' = "pushed"
             /\ last' = [NoTrace EXCEPT !.call = "stack_push_u16", !.arg = hi * 256 + lo,
                                      !.before = Snapshot(CpuRec)])
    /\ UNCHANGED <<overflow_checks, iterations, entry>>

\* self.stack_pop_u16(), right after the push
StackPopU16 ==
    /\ phase = "pushed"
    /\ Then(stack_pop_u16(CpuRec), LAMBDA t :
            /\ Becomes(t)
            /\ phase' = "popped"
            /\ last' = [last EXCEPT !.call = "stack_pop_u16", !.ret = t.ret])
    /\ UNCHANGED <<overflow_checks, iterations, entry>>

NextStackU16 == CallbackStackPointer \/ StackPushU16 \/ StackPopU16

SpecStackU16 == Init /\ [][NextStackU16]_vars

\* C8: stack_push_u16(v) immediately followed by stack_pop_u16() returns v
\* and restores the stack pointer, for every v and every starting stack
\* pointer, those where the two bytes straddle the 0x00/0xFF wrap included.
C8_PushPopU16 ==
    phase = "popped"
        => /\ panicked = ""
           /\ last.ret = last.arg
           /\ stack_pointer = last.before.stack_pointer

\* 0x1234 pushed from stack pointer 0x00 (high byte at 0x0100, low byte at
\* 0x01FF) has been popped.
C8_Witness ==
    /\ phase = "popped"
    /\ last.arg = 4660
    /\ last.before.stack_pointer = 0
    /\ ArrGet(cpu_vram, 256) = 18
    /\ ArrGet(cpu_vram, 511) = 52
    /\ last.ret = 4660
    /\ stack_pointer = 0

---------------------------------------------------------------------------
\* SpecFlags: run_with_callback where the first callback places two
\* instructions out of PHP (0x08) and PLP (0x28) in RAM, with any status
\* register.

\* Stack pointers at the first instruction.
FlagStackPointers == {STACK_RESET, 255}

\* The byte that lies where a leading PLP pops it.
PoppedBytes == {0, 48, 207}

CallbackFlags ==
    /\ iterations = 0
    /\ \E at \in ProgramAddresses, first \in {8, 40}, second \in {8, 40},
          st \in Byte, sp \in FlagStackPointers, b \in PoppedBytes :
         InvokeCallback(Setup(at, 0, 0, 0, st, sp,
             << Block(STACK + wrapping_add_u8(sp, 1), <<b>>),
                Block(at, <<first, second>>) >>))

NextFlags == CallbackIdle \/ CallbackFlags \/ Step

SpecFlags == Init /\ [][NextFlags]_vars

\* A status byte with BREAK (bit 4) cleared and BREAK2 (bit 5) set.
BreakLowBreak2High(b) ==
    b - (IF (b \div 16) % 2 = 1 THEN 16 ELSE 0) + (IF (b \div 32) % 2 = 0 THEN 32 ELSE 0)

\* A status byte with BREAK and BREAK2 set.
BothBreaksHigh(b) ==
    b + (IF (b \div 16) % 2 = 0 THEN 16 ELSE 0) + (IF (b \div 32) % 2 = 0 THEN 32 ELSE 0)

\* C9: PHP pushes the status byte with BREAK and BREAK2 set and leaves the
\* status register unchanged; PLP sets the status to the popped byte with
\* BREAK cleared and BREAK2 set; PHP followed by PLP yields the original
\* status except BREAK = 0 and BREAK2 = 1.
C9_PhpPlp ==
    /\ (JustStepped /\ last.code = 8)
         => /\ panicked = ""
            /\ ArrGet(cpu_vram, STACK + last.before.stack_pointer)
                   = BothBreaksHigh(last.before.status)
            /\ status = last.before.status
    /\ (JustStepped /\ last.code = 40)
         => /\ panicked = ""
            /\ status = BreakLowBreak2High(ArrGet(last.before.cpu_vram, STACK + stack_pointer))
    /\ (JustStepped /\ last.code = 40 /\ iterations = 2
            /\ ByteAt(entry, entry.program_counter) = 8)
         => /\ status = BreakLowBreak2High(entry.status)
            /\ stack_pointer = entry.stack_pointer

\* PHP then PLP on a status with BREAK set and BREAK2 clear (0xD3): 0xF3 was
\* pushed, the status is now 0xE3.
C9_Witness ==
    /\ JustStepped /\ last.code = 40 /\ iterations = 2
    /\ ByteAt(entry, entry.program_counter) = 8
    /\ entry.status = 211
    /\ ArrGet(cpu_vram, STACK + entry.stack_pointer) = 243
    /\ status = 227

---------------------------------------------------------------------------
\* SpecAdc: run_with_callback where the first callback places one ADC in RAM,
\* immediate (0x69) or zero page (0x65, reading the cell 0x10), with any
\* accumulator and either carry.

\* The status registers at the ADC, but for the carry: CPU::new's, and one
\* with ZERO, OVERFLOW and NEGATIVE set as well.
AdcStatuses == {36, 230}

\* The operand bytes: the ends and the middle of the range, single bits, the
\* two alternating patterns.
AdcOperands == {0, 1, 2, 15, 16, 64, 85, 127, 128, 129, 170, 192, 240, 254, 255}

CallbackAdc ==
    /\ iterations = 0
    /\ \E at \in ProgramAddresses, code \in {105, 101}, a \in Byte, b \in AdcOperands,
          c \in {0, 1}, st \in AdcStatuses :
         InvokeCallback(Setup(at, a, 0, 0, st + c, STACK_RESET,
             IF code = 105 THEN << Block(at, <<code, b>>) >>
             ELSE << Block(16, <<b>>), Block(at, <<code, 16>>) >>))

NextAdc == CallbackAdc \/ Step

SpecAdc == Init /\ [][NextAdc]_vars

\* The operand byte of the ADC `last` describes.
AdcOperand ==
    LET byte == ByteAt(last.before, (last.opcode_address + 1) % 65536)
    IN IF last.code = 105 THEN byte ELSE ByteAt(last.before, byte)

\* C10: for every accumulator a, operand b and carry-in c, ADC leaves the
\* accumulator equal to (a + b + c) mod 256 and the carry flag set iff
\* a + b + c > 255.
C10_AdcSum ==
    (JustStepped /\ last.code \in {105, 101})
        => LET sum == last.before.register_a + AdcOperand + (last.before.status % 2)
           IN /\ panicked = ""
              /\ register_a = sum % 256
              /\ (status % 2 = 1) <=> (sum > 255)

\* 0xFF + 0x00 + carry: the accumulator is 0 and the carry is set.
C10_Witness ==
    /\ JustStepped /\ last.code = 105
    /\ last.before.register_a = 255
    /\ AdcOperand = 0
    /\ last.before.status % 2 = 1
    /\ register_a = 0
    /\ status % 2 = 1

---------------------------------------------------------------------------
\* Claims about the arithmetic flags.

\* A byte read as a two's-complement number.
Signed(byte) == IF byte >= 128 THEN byte - 256 ELSE byte

\* C11: for every a, b and carry-in, ADC sets the overflow flag iff
\* ((b XOR result) AND (result XOR a) AND 0x80) != 0, which is exactly when
\* the signed sum of a, b and the carry-in lies outside -128..127; otherwise
\* it clears the flag.
C11_AdcOverflow ==
    (JustStepped /\ last.code \in {105, 101})
        => LET a == last.before.register_a
               b == AdcOperand
               c == last.before.status % 2
               v == contains(status, OVERFLOW)
           IN /\ v <=> (BitAnd(BitAnd(BitXor(b, register_a), BitXor(register_a, a)), 128) # 0)
              /\ v <=> (Signed(a) + Signed(b) + c \notin -128..127)

\* 0x7F + 0x01 has set the overflow flag, which was clear.
C11_Witness ==
    /\ JustStepped /\ last.code = 105 /\ AdcOperand = 1
    /\ last.before.register_a = 127
    /\ last.before.status % 2 = 0
    /\ ~contains(last.before.status, OVERFLOW)
    /\ contains(status, OVERFLOW)
    /\ register_a = 128

---------------------------------------------------------------------------
\* SpecRom: run_with_callback where the first callback reads one address of
\* the ROM window 0x8000..0xFFFF.

\* The addresses read: both halves of the window, at their ends and inside.
RomAddresses ==
    { 32768 + 16384 * k + j :
        k \in 0..1,
        j \in (0..7) \cup {100, 4660, 8191, 8192, 12345} \cup (16376..16383) }

CallbackRom ==
    /\ phase = "callback"
    /\ iterations = 0
    /\ \E a \in RomAddresses :
         Then(mem_read(CpuRec, a), LAMBDA t :
             /\ Becomes(t)
             /\ phase' = IF Ok(t) THEN "fetch" ELSE "aborted"
             /\ entry' = Snapshot(t)
             /\ last' = [NoTrace EXCEPT !.call = "mem_read", !.arg = a, !.ret = t.ret,
                                        !.before = Snapshot(CpuRec)])
    /\ iterations' = iterations + 1
    /\ UNCHANGED overflow_checks

NextRom == CallbackRom

SpecRom == Init /\ [][NextRom]_vars

\* The index the read of address a takes in the ROM buffer.
RomIndex(a) ==
    IF prg_rom.len = 32768 THEN a - 32768 ELSE (a - 32768) % 16384

\* C20: a bus read of a in 0x8000..0xFFFF returns prg_rom[a - 0x8000] when the
\* ROM is 32 KiB and prg_rom[(a - 0x8000) mod 0x4000] when it is 16 KiB; with
\* a 16 KiB image the reads at a and a + 0x4000 agree; the index is inside
\* the ROM buffer, so no read is a fatal error.
C20_PrgRomRead ==
    (last.call = "mem_read" /\ last.arg \in 32768..65535)
        => /\ panicked = ""
           /\ prg_rom.len \in {16384, 32768}
           /\ RomIndex(last.arg) \in 0..(prg_rom.len - 1)
           /\ last.ret = ArrGet(prg_rom.data, RomIndex(last.arg))
           /\ (prg_rom.len = 16384 /\ last.arg < 49152)
                => mem_read(CpuRec, last.arg + 16384).ret = last.ret
           /\ cpu_vram = last.before.cpu_vram
           /\ ppu = last.before.ppu

\* The read of 0xFFFF with the 16 KiB image: the last byte of the bank, 0xEA.
C20_Witness ==
    /\ last.call = "mem_read" /\ last.arg = 65535
    /\ prg_rom.len = 16384
    /\ panicked = ""
    /\ last.ret = 234

\* The read of 0xC000 with the 32 KiB image: the byte of index 0x4000, not
\* the first byte of the image.
C20_WitnessSecondBank ==
    /\ last.call = "mem_read" /\ last.arg = 49152
    /\ prg_rom.len = 32768
    /\ ArrGet(prg_rom.data, 0) = 165
    /\ last.ret = 0

---------------------------------------------------------------------------
\* SpecSbc: run_with_callback where the first callback places one subtraction
\* in RAM: SBC immediate (0xE9, CPU::sbc), the unofficial SBC immediate (0xEB,
\* sub_from_register_a) or ISB zero page (0xE7, inc then sub_from_register_a,
\* on the cell 0x10), with any operand byte and either carry.

\* The accumulators at the subtraction.
SbcAccumulators == {0, 1, 80, 127, 128, 208, 254, 255}

CallbackSbc ==
    /\ iterations = 0
    /\ \E at \in ProgramAddresses, code \in {233, 235, 231}, a \in SbcAccumulators,
          m \in Byte, c \in {0, 1}, st \in AdcStatuses :
         InvokeCallback(Setup(at, a, 0, 0, st + c, STACK_RESET,
             IF code = 231 THEN << Block(16, <<m>>), Block(at, <<code, 16>>) >>
             ELSE << Block(at, <<code, m>>) >>))

NextSbc == CallbackSbc \/ Step

SpecSbc == Init /\ [][NextSbc]_vars

\* The byte the subtraction `last` describes subtracts: the immediate operand,
\* or for ISB the incremented cell.
SbcOperand ==
    LET byte == ByteAt(last.before, (last.opcode_address + 1) % 65536)
    IN IF last.code = 231 THEN (ByteAt(last.before, byte) + 1) % 256 ELSE byte

\* A status byte with CARRY, ZERO, OVERFLOW and NEGATIVE replaced.
WithArithmeticFlags(st, c, z, v, n) ==
    BitAnd(st, 60) + (IF c THEN 1 ELSE 0) + (IF z THEN 2 ELSE 0)
                   + (IF v THEN 64 ELSE 0) + (IF n THEN 128 ELSE 0)

\* C12: SBC is ADC of the complement of the operand: for every A, M and carry
\* C the result is (A - M - (1 - C)) mod 256 with carry set iff no borrow
\* occurred; sbc() and sub_from_register_a() complement every operand byte
\* alike, so the official and the unofficial opcodes leave the same
\* accumulator and flags.
C12_SbcComplement ==
    (JustStepped /\ last.code \in {233, 235, 231})
        => LET a == last.before.register_a
               m == SbcOperand
               c == last.before.status % 2
               d == a - m - (1 - c)
               result == (d + 256) % 256
           IN /\ panicked = ""
              /\ register_a = result
              /\ status = WithArithmeticFlags(last.before.status, d >= 0, result = 0,
                              Signed(a) - Signed(m) - (1 - c) \notin -128..127,
                              result >= 128)

\* The unofficial SBC of 0x80 from 0x00 with the carry set: the result is
\* 0x80, with a borrow and a signed overflow.
C12_Witness ==
    /\ JustStepped /\ last.code = 235
    /\ last.before.register_a = 0 /\ SbcOperand = 128 /\ last.before.status % 2 = 1
    /\ register_a = 128
    /\ ~contains(status, CARRY) /\ contains(status, OVERFLOW) /\ contains(status, NEGATIVE)

---------------------------------------------------------------------------
\* SpecValue: run_with_callback where the first callback places one
\* instruction that produces a byte in RAM, with any byte v as what the
\* instruction works on: its immediate operand, the zero-page cell 0x10 it
\* addresses, the register it reads, the byte it pops.

\* One opcode of each family, by destination.  To the accumulator: LDA
\* immediate and zero page, PLA, TXA, TYA, AND, EOR, ORA, ADC and SBC
\* immediate, ASL, LSR, ROL and ROR of the accumulator.
ValueCodesToA == {169, 165, 104, 138, 152, 41, 73, 9, 105, 233, 10, 74, 42, 106}

\* To X: LDX immediate, TAX, TSX, INX, DEX.
ValueCodesToX == {162, 170, 186, 232, 202}

\* To Y: LDY immediate, TAY, INY, DEY.
ValueCodesToY == {160, 168, 200, 136}

\* To the zero-page cell: INC, DEC, ASL, LSR, ROL, ROR.
ValueCodesToMemory == {230, 198, 6, 70, 38, 102}

ValueCodes == ValueCodesToA \cup ValueCodesToX \cup ValueCodesToY \cup ValueCodesToMemory

\* The opcodes that combine the accumulator with v, and the accumulators they
\* find.
CombiningCodes == {41, 73, 9, 105, 233}
CombinedAccumulators == {0, 85, 128, 255}

\* The status registers at the instruction: carry, ZERO and NEGATIVE all
\* clear, or all set.
ValueStatuses == {36, 167}

CallbackValue ==
    /\ iterations = 0
    /\ \E at \in ProgramAddresses, code \in ValueCodes, v \in Byte, st \in ValueStatuses :
         \E r \in (IF code \in CombiningCodes THEN CombinedAccumulators ELSE {v}) :
            InvokeCallback(Setup(at, r, r, r, st, v,
                << Block(STACK + wrapping_add_u8(v, 1), <<v>>),
                   Block(16, <<v>>),
                   Block(at, <<code, IF code \in ValueCodesToMemory \cup {165} THEN 16 ELSE v>>) >>))

NextValue == CallbackValue \/ Step

SpecValue == Init /\ [][NextValue]_vars

\* The byte the instruction `last` describes left in its destination.
ValueWritten ==
    IF last.code \in ValueCodesToA THEN register_a
    ELSE IF last.code \in ValueCodesToX THEN register_x
    ELSE IF last.code \in ValueCodesToY THEN register_y
    ELSE ByteAt(CpuRec, ByteAt(last.before, (last.opcode_address + 1) % 65536))

\* C13: after every value-producing instruction the zero flag is set iff the
\* byte written to the destination is 0 and the negative flag is set iff
\* bit 7 of that byte is 1; LDA immediate of v gives A = v, Z = (v = 0),
\* N = (v >= 0x80).
C13_ZeroNegative ==
    (JustStepped /\ last.code \in ValueCodes)
        => /\ panicked = ""
           /\ contains(status, ZERO) <=> (ValueWritten = 0)
           /\ contains(status, NEGATIVE) <=> (ValueWritten >= 128)
           /\ last.code = 169
                => register_a = ByteAt(last.before, (last.opcode_address + 1) % 65536)

\* INC of the cell holding 0xFF, with ZERO and NEGATIVE set before: the cell
\* holds 0, ZERO is set and NEGATIVE is clear.
C13_Witness ==
    /\ JustStepped /\ last.code = 230
    /\ ByteAt(last.before, 16) = 255
    /\ contains(last.before.status, ZERO) /\ contains(last.before.status, NEGATIVE)
    /\ ByteAt(CpuRec, 16) = 0
    /\ contains(status, ZERO) /\ ~contains(status, NEGATIVE)

---------------------------------------------------------------------------
\* SpecCompare: run_with_callback where the first callback places one
\* comparison in RAM: CMP immediate (0xC9), CMP zero page (0xC5, on the
\* cell 0x10), CPX immediate (0xE0) or CPY immediate (0xC0), with any value
\* in the compared register.

CompareCodes == {201, 197, 224, 192}

\* The operand bytes.
CompareOperands == {0, 1, 64, 127, 128, 129, 254, 255}

\* The status registers at the comparison: CPU::new's, and one with every
\* flag set.
CompareStatuses == {36, 231}

\* The register file <<a, x, y>> with r in the register the opcode compares
\* and 0x55, 0xAA in the other two.
CompareRegisters(code, r) ==
    IF code = 224 THEN <<85, r, 170>>
    ELSE IF code = 192 THEN <<85, 170, r>>
    ELSE <<r, 85, 170>>

CallbackCompare ==
    /\ iterations = 0
    /\ \E at \in ProgramAddresses, code \in CompareCodes, r \in Byte,
          m \in CompareOperands, st \in CompareStatuses :
         InvokeCallback(Setup(at, CompareRegisters(code, r)[1], CompareRegisters(code, r)[2],
                              CompareRegisters(code, r)[3], st, STACK_RESET,
             IF code = 197 THEN << Block(16, <<m>>), Block(at, <<code, 16>>) >>
             ELSE << Block(at, <<code, m>>) >>))

NextCompare == CallbackCompare \/ Step

SpecCompare == Init /\ [][NextCompare]_vars

\* The operand byte of the comparison `last` describes.
CompareOperand ==
    LET byte == ByteAt(last.before, (last.opcode_address + 1) % 65536)
    IN IF last.code = 197 THEN ByteAt(last.before, byte) ELSE byte

\* The register the comparison `last` describes compares, before it.
ComparedRegister ==
    IF last.code = 224 THEN last.before.register_x
    ELSE IF last.code = 192 THEN last.before.register_y
    ELSE last.before.register_a

\* C14: CMP, CPX and CPY with register value r and operand m set the carry
\* flag iff m <= r and clear it otherwise, set zero and negative from
\* (r - m) mod 256, and leave r, the other registers and memory unchanged.
C14_Compare ==
    (JustStepped /\ last.code \in CompareCodes)
        => LET r == ComparedRegister
               m == CompareOperand
               d == (r - m + 256) % 256
           IN /\ panicked = ""
              /\ status = WithArithmeticFlags(last.before.status, m <= r, d = 0,
                              contains(last.before.status, OVERFLOW), d >= 128)
              /\ register_a = last.before.register_a
              /\ register_x = last.before.register_x
              /\ register_y = last.before.register_y
              /\ stack_pointer = last.before.stack_pointer
              /\ cpu_vram = last.before.cpu_vram
              /\ ppu = last.before.ppu

\* CPX of 0x80 against X = 0x7F, with every flag set before: the carry and
\* ZERO are cleared, NEGATIVE stays set (0x7F - 0x80 = 0xFF), X is 0x7F.
C14_Witness ==
    /\ JustStepped /\ last.code = 224
    /\ last.before.register_x = 127 /\ CompareOperand = 128
    /\ last.before.status = 231
    /\ status = 228
    /\ register_x = 127

---------------------------------------------------------------------------
\* Claims about the run as a whole.

\* C15: run_with_callback returns only when opcode 0x00 (BRK) is fetched: no
\* other opcode ends the loop, and once BRK is dispatched no further opcode
\* is fetched and the callback is not invoked again.
C15_HaltOnlyOnBrk ==
    [][/\ phase' = "halted" => (phase = "fetch" /\ last'.code = 0 /\ panicked' = "")
       /\ (phase = "fetch" /\ last'.code # 0 /\ panicked' = "") => phase' = "callback"
       /\ phase # "halted"]_vars

\* The second iteration of a run fetched BRK and returned.
C15_Witness ==
    /\ phase = "halted"
    /\ iterations = 2
    /\ last.code = 0
    /\ ByteAt(last.before, last.opcode_address) = 0
    /\ panicked = ""

---------------------------------------------------------------------------
\* CPU::reset and CPU::load.

\* reset leaving the status register as it finds it: C16 does not hold of it.
reset_keeps_status(s) ==
    IF ~Ok(s) THEN s ELSE
    Then(mem_read_u16([s EXCEPT !.register_a = 0, !.register_x = 0, !.register_y = 0,
                                !.stack_pointer = STACK_RESET],
                      65532),
         LAMBDA s1 : With(s1, "program_counter", s1.ret))

\* CPU::reset
reset(s) ==
    IF ~Ok(s) THEN s ELSE
    Then(mem_read_u16([s EXCEPT !.register_a = 0, !.register_x = 0, !.register_y = 0,
                                !.stack_pointer = STACK_RESET, !.status = 36],
                      65532),
         LAMBDA s1 : With(s1, "program_counter", s1.ret))

---------------------------------------------------------------------------
\* SpecReset: run_with_callback where the first callback, which gets the CPU
\* as &mut, assigns the registers, writes RAM and then calls reset().

\* The program counters before the reset.
ResetProgramCounters == {32768, 4660, 65532}

\* What the callback writes before the reset: nothing, or the RAM cells 0x07FC
\* and 0x07FD (the low 11 bits of the vector's address) and a zero-page cell.
ResetWrites == { << >>, << Block(2044, <<153, 119>>), Block(16, <<1>>) >> }

CallbackReset ==
    /\ phase = "callback"
    /\ iterations = 0
    /\ \E r \in RegisterFiles, st \in Byte, pc \in ResetProgramCounters, w \in ResetWrites :
         Then(callback_effect(CpuRec, Setup(pc, r[1], r[2], r[3], st, r[5], w)), LAMBDA pre :
         Then(reset(pre), LAMBDA t :
             /\ Becomes(t)
             /\ phase' = IF Ok(t) THEN "fetch" ELSE "aborted"
             /\ entry' = Snapshot(t)
             /\ last' = [NoTrace EXCEPT !.call = "reset", !.before = Snapshot(pre)]))
    /\ iterations' = iterations + 1
    /\ UNCHANGED overflow_checks

NextReset == CallbackReset

SpecReset == Init /\ [][NextReset]_vars

\* C16: reset() sets A = X = Y = 0, the stack pointer to 0xFD, the status
\* byte to exactly 0b100100 and program_counter to the little-endian word
\* stored at 0xFFFC/0xFFFD, whatever the CPU state before the call; memory is
\* unchanged.
C16_Reset ==
    last.call = "reset"
        => /\ panicked = ""
           /\ register_a = 0 /\ register_x = 0 /\ register_y = 0
           /\ stack_pointer = 253
           /\ status = 36
           /\ program_counter = ArrGet(prg_rom.data, 65532 % prg_rom.len)
                                    + 256 * ArrGet(prg_rom.data, 65533 % prg_rom.len)
           /\ cpu_vram = last.before.cpu_vram
           /\ ppu = last.before.ppu

\* A reset of a CPU with A = 0x80, every flag set, the stack pointer at 0 and
\* RAM written: the program counter is the word of the 16 KiB image, 0x2034.
C16_Witness ==
    /\ last.call = "reset"
    /\ last.before.register_a = 128 /\ last.before.status = 255
    /\ last.before.stack_pointer = 0 /\ last.before.program_counter = 4660
    /\ ArrGet(cpu_vram, 2044) = 153
    /\ register_a = 0 /\ status = 36 /\ stack_pointer = 253
    /\ program_counter = 8244

\* CPU::load: the bytes of the program through mem_write from address 0, then
\* the word 0x0000 through mem_write_u16 at 0xFFFC.
load(s, program) ==
    Then(write_bytes(s, 0, program), LAMBDA s1 :
        mem_write_u16(s1, 65532, 0))

\* CPU::load_and_run, up to the entry of run's loop.
load_and_run(s, program) ==
    Then(load(s, program), LAMBDA s1 : reset(s1))

---------------------------------------------------------------------------
\* SpecLoad: the owner of a new CPU calls load, or load_and_run.

\* The longest program loaded.
MaxProgramLen == 2

\* The bytes programs are made of.
ProgramBytes == {0, 169, 5, 232, 234, 96, 255, 1, 16, 32}

Programs == UNION { [1..n -> ProgramBytes] : n \in 0..MaxProgramLen }

Load ==
    /\ phase = "callback"
    /\ iterations = 0
    /\ last = NoTrace
    /\ \E program \in Programs :
         Then(load(CpuRec, program), LAMBDA t :
             /\ Becomes(t)
             /\ phase' = IF Ok(t) THEN "loaded" ELSE "aborted"
             /\ last' = [NoTrace EXCEPT !.call = "load", !.arg = program,
                                        !.before = Snapshot(CpuRec)])
    /\ UNCHANGED <<iterations, entry, overflow_checks>>

LoadAndRun ==
    /\ phase = "callback"
    /\ iterations = 0
    /\ last = NoTrace
    /\ \E program \in Programs :
         Then(load_and_run(CpuRec, program), LAMBDA t :
             /\ Becomes(t)
             /\ phase' = IF Ok(t) THEN "callback" ELSE "aborted"
             /\ last' = [NoTrace EXCEPT !.call = "load_and_run", !.arg = program,
                                        !.before = Snapshot(CpuRec)])
    /\ UNCHANGED <<iterations, entry, overflow_checks>>

NextLoad == Load \/ LoadAndRun

SpecLoad == Init /\ [][NextLoad]_vars

\* C17: load(program) returns with the program bytes at consecutive
\* addresses from the base address 0x0000 and with the word at 0xFFFC/0xFFFD
\* equal to that base; load_and_run gets to run's loop with program_counter at
\* the base, without a fatal error.
C17_Load ==
    /\ last.call = "load"
         => /\ panicked = ""
            /\ \A i \in 1..Len(last.arg) : ByteAt(CpuRec, i - 1) = last.arg[i]
            /\ WordAt(CpuRec, 65532) = 0
    /\ last.call = "load_and_run"
         => /\ panicked = ""
            /\ phase = "callback"
            /\ program_counter = 0

\* Every load ends in the fatal error of the bus write to the ROM.
C17_LoadAborts ==
    last.call \in {"load", "load_and_run"}
        => /\ phase = "aborted"
           /\ panicked = "write on cartridge ROM space"

---------------------------------------------------------------------------
\* SpecRam: run_with_callback where the first callback fills some RAM cells,
\* then writes byte v at address a of the RAM window and reads address b.

\* The addresses written: the ends of the 2 KiB RAM and of its three mirrors,
\* and cells inside them.
RamAddresses == { 2048 * k + j : k \in 0..3, j \in {0, 1, 255, 1234, 2046, 2047} }

\* The bytes written.
RamBytes == {0, 1, 128, 255}

\* What the RAM holds before the write: zeroes, or bytes at its two ends, at
\* 0x04D2 and next to it.
RamFills ==
    { << >>,
      << Block(0, <<17, 18>>), Block(1234, <<51, 52>>), Block(2046, <<67, 68>>) >> }

\* The addresses read after a write at a: the four addresses with a's low 11
\* bits, the next address, and the ends of the window.
RamReads(a) ==
    { (a % 2048) + 2048 * k : k \in 0..3 } \cup { (a + 1) % 8192, 0, 8191 }

CallbackRam ==
    /\ phase = "callback"
    /\ iterations = 0
    /\ \E a \in RamAddresses, v \in RamBytes, w \in RamFills :
         \E b \in RamReads(a) :
            Then(callback_effect(CpuRec, Setup(512, 0, 0, 0, 36, STACK_RESET, w)), LAMBDA pre :
            Then(mem_write(pre, a, v), LAMBDA s1 :
            Then(mem_read(s1, b), LAMBDA t :
                /\ Becomes(t)
                /\ phase' = IF Ok(t) THEN "fetch" ELSE "aborted"
                /\ entry' = Snapshot(t)
                /\ last' = [NoTrace EXCEPT !.call = "mem_write", !.arg = <<a, v, b>>,
                                           !.ret = t.ret, !.before = Snapshot(pre)])))
    /\ iterations' = iterations + 1
    /\ UNCHANGED overflow_checks

NextRam == CallbackRam

SpecRam == Init /\ [][NextRam]_vars

\* C18: for a in 0x0000..0x1FFF a bus write of v at a makes the read of every
\* b in 0x0000..0x1FFF with the same low 11 bits return v, and changes no RAM
\* cell other than the one of index a AND 0x07FF.
C18_RamMirrors ==
    last.call = "mem_write"
        => LET a == last.arg[1]
               v == last.arg[2]
               b == last.arg[3]
           IN /\ panicked = ""
              /\ \A i \in 0..2047 :
                    ArrGet(cpu_vram, i) = IF i = a % 2048 THEN v
                                          ELSE ArrGet(last.before.cpu_vram, i)
              /\ b % 2048 = a % 2048 => last.ret = v
              /\ b % 2048 # a % 2048 => last.ret = ArrGet(last.before.cpu_vram, b % 2048)
              /\ \A k \in 0..3 : mem_read(CpuRec, (a % 2048) + 2048 * k).ret = v
              /\ DOMAIN cpu_vram \subseteq 0..2047
              /\ ppu = last.before.ppu

\* A write of 0xFF at 0x1FFF (the last address of the third mirror), read back
\* at 0x07FF; the cell held 0x44 and its neighbour keeps 0x43.
C18_Witness ==
    /\ last.call = "mem_write"
    /\ last.arg = <<8191, 255, 2047>>
    /\ ArrGet(last.before.cpu_vram, 2047) = 68
    /\ last.ret = 255
    /\ ArrGet(cpu_vram, 2047) = 255 /\ ArrGet(cpu_vram, 2046) = 67

---------------------------------------------------------------------------
\* SpecPpuBus: run_with_callback where the first callback writes some picture
\* unit registers at 0x2000..0x2007, then reads or writes one address of
\* 0x2000..0x3FFF.

\* The register writes before the access: none; the address 0x2005 (in two
\* writes) and the increment of 32; the address 0x3F10; an OAM byte.
PpuPresets ==
    { << >>,
      << Block(8198, <<32>>), Block(8198, <<5>>), Block(8192, <<4>>) >>,
      << Block(8198, <<63>>), Block(8198, <<16>>) >>,
      << Block(8195, <<7>>), Block(8196, <<9>>), Block(8195, <<7>>) >> }

\* The addresses accessed: the eight registers, their first and last mirrors,
\* and mirrors inside the window.
PpuBusAddresses == { base + sub : base \in {8192, 8200, 10936, 16376}, sub \in 0..7 }

\* The bytes written.
PpuBusBytes == {0, 63, 255}

CallbackPpuBus ==
    /\ phase = "callback"
    /\ iterations = 0
    /\ \E w \in PpuPresets, m \in PpuBusAddresses, v \in PpuBusBytes, read \in BOOLEAN :
         /\ read => v = 0
         /\ Then(write_blocks(CpuRec, w), LAMBDA pre :
            Then(IF read THEN mem_read(pre, m) ELSE mem_write(pre, m, v), LAMBDA t :
                /\ Becomes(t)
                /\ phase' = IF Ok(t) THEN "fetch" ELSE "aborted"
                /\ entry' = Snapshot(t)
                /\ last' = [NoTrace EXCEPT !.call = IF read THEN "mem_read" ELSE "mem_write",
                                           !.arg = <<m, v>>, !.ret = t.ret,
                                           !.before = Snapshot(pre)]))
    /\ iterations' = iterations + 1
    /\ UNCHANGED overflow_checks

NextPpuBus == CallbackPpuBus

SpecPpuBus == Init /\ [][NextPpuBus]_vars

\* The CPU record before the last access.
BeforeAccess ==
    [CpuRec EXCEPT !.cpu_vram = last.before.cpu_vram, !.ppu = last.before.ppu,
                   !.panicked = ""]

\* The access left what the operation with outcome t leaves.
SameOutcome(t) ==
    /\ panicked = t.panicked
    /\ ppu = t.ppu
    /\ cpu_vram = t.cpu_vram
    /\ (last.call = "mem_read" /\ panicked = "") => last.ret = t.ret

\* C19: an access at an address of 0x2000..0x3FFF behaves as the access at
\* 0x2000 + (address AND 7): a write at sub-address 2 is a fatal error, a read
\* at sub-address 0, 1, 3, 5 or 6 is a fatal error, and every other access is
\* the register operation of its sub-address.
C19_PpuMirrors ==
    (last.call \in {"mem_read", "mem_write"} /\ last.arg[1] \in 8192..16383)
        => LET sub == last.arg[1] % 8
               v == last.arg[2]
           IN /\ last.call = "mem_read"
                   => /\ SameOutcome(mem_read(BeforeAccess, 8192 + sub))
                      /\ sub \in {0, 1, 3, 5, 6}
                           => /\ panicked = "read from write-only PPU address"
                              /\ ppu = last.before.ppu
                      /\ sub = 2 => SameOutcome(read_status(BeforeAccess))
                      /\ sub = 4 => SameOutcome(read_oam_data(BeforeAccess))
                      /\ sub = 7 => SameOutcome(read_data(BeforeAccess))
              /\ last.call = "mem_write"
                   => /\ SameOutcome(mem_write(BeforeAccess, 8192 + sub, v))
                      /\ sub = 2 => /\ panicked = "write to PPU status register"
                                    /\ ppu = last.before.ppu
                      /\ sub = 0 => SameOutcome(write_to_ctrl(BeforeAccess, v))
                      /\ sub = 1 => SameOutcome(write_to_mask(BeforeAccess, v))
                      /\ sub = 3 => SameOutcome(write_to_oam_addr(BeforeAccess, v))
                      /\ sub = 4 => SameOutcome(write_to_oam_data(BeforeAccess, v))
                      /\ sub = 5 => SameOutcome(write_to_scroll(BeforeAccess, v))
                      /\ sub = 6 => SameOutcome(write_to_ppu_addr(BeforeAccess, v))
                      /\ sub = 7 => SameOutcome(write_to_data(BeforeAccess, v))

\* A read at 0x3FFF, the last mirror of the data register, with the address
\* register at 0x2005 and the increment at 32: the address becomes 0x2025.
C19_Witness ==
    /\ last.call = "mem_read" /\ last.arg[1] = 16383
    /\ addr_get(last.before.ppu.addr) = 8197
    /\ panicked = ""
    /\ addr_get(ppu.addr) = 8229

\* A write at 0x2AFA, a mirror of the status register: fatal.
C19_WitnessStatusWrite ==
    /\ last.call = "mem_write" /\ last.arg[1] = 10938
    /\ panicked = "write to PPU status register"

\* A read at 0x3FFE, a mirror of the address register: fatal.
C19_WitnessWriteOnlyRead ==
    /\ last.call = "mem_read" /\ last.arg[1] = 16382
    /\ panicked = "read from write-only PPU address"

---------------------------------------------------------------------------
\* SpecRomWrite: run_with_callback where the first callback writes near or
\* in the ROM window itself (mem_write, mem_write_u16), or places an
\* instruction that stores at an absolute address near or in the window.

\* The addresses written: the last two before the window, the ends of its two
\* halves, inside it, and the vectors at its end.
RomWriteAddresses == {32766, 32767, 32768, 32769, 49151, 49152, 53248, 65532, 65534, 65535}

\* The words written by mem_write_u16 (mem_write takes their low byte).
RomWriteWords == {0, 1, 4660, 65535}

\* Absolute stores and read-modify-writes: STY, STA, STX, SAX, ASL, ROL, LSR,
\* ROR, DEC, INC, SLO, RLA, SRE, RRA, DCP, ISB.
AbsoluteWriteCodes == {140, 141, 142, 143, 14, 46, 78, 110, 206, 238, 15, 47, 79, 111, 207, 239}

\* Absolute-X stores and read-modify-writes: STA, ASL, ROL, LSR, ROR, DEC, INC.
AbsoluteXWriteCodes == {157, 30, 62, 94, 126, 222, 254}

\* The operands of those instructions: RAM, the last address before the
\* window, its first, inside it, its last.
WriteOperands == {16, 32767, 32768, 32784, 65535}

CallbackRomWrite ==
    /\ phase = "callback"
    /\ iterations = 0
    /\ \E a \in RomWriteAddresses, w \in RomWriteWords, wide \in BOOLEAN :
         Then(IF wide THEN mem_write_u16(CpuRec, a, w) ELSE mem_write(CpuRec, a, w % 256),
              LAMBDA t :
                /\ Becomes(t)
                /\ phase' = IF Ok(t) THEN "fetch" ELSE "aborted"
                /\ entry' = Snapshot(t)
                /\ last' = [NoTrace EXCEPT !.call = IF wide THEN "mem_write_u16" ELSE "mem_write",
                                           !.arg = <<a, w>>, !.before = Snapshot(CpuRec)])
    /\ iterations' = iterations + 1
    /\ UNCHANGED overflow_checks

CallbackStore ==
    /\ iterations = 0
    /\ \E at \in ProgramAddresses, code \in AbsoluteWriteCodes \cup AbsoluteXWriteCodes,
          t \in WriteOperands, x \in {0, 1, 255}, a \in {0, 129} :
         InvokeCallback(Setup(at, a, x, a, 36, STACK_RESET,
                              << Block(at, <<code, t % 256, t \div 256>>) >>))

NextRomWrite == CallbackIdle \/ CallbackRomWrite \/ CallbackStore \/ Step

SpecRomWrite == Init /\ [][NextRomWrite]_vars

\* The address the instruction just executed stores at, -1 when it is none
\* of the stores above.
StoredAt(l) ==
    IF l.code \in AbsoluteWriteCodes
    THEN WordAt(l.before, (l.opcode_address + 1) % 65536)
    ELSE IF l.code \in AbsoluteXWriteCodes
    THEN (WordAt(l.before, (l.opcode_address + 1) % 65536) + l.before.register_x) % 65536
    ELSE -1

\* The step made a write that names an address of the ROM window: mem_write
\* at such an address, mem_write_u16 with one of its two bytes there, or a
\* store instruction.
RomWriteDone ==
    \/ last'.call = "mem_write" /\ last'.arg[1] >= 32768
    \/ last'.call = "mem_write_u16" /\ last'.arg[1] >= 32767
    \/ phase = "fetch" /\ last'.code >= 0 /\ StoredAt(last') >= 32768

\* C21: every write at an address of 0x8000..0xFFFF, by an instruction or by
\* a helper, the 16-bit one included, aborts the run; the ROM bytes never
\* change; no step follows the abort.
C21_RomWriteFatal ==
    [][/\ prg_rom' = prg_rom
       /\ phase # "aborted"
       /\ RomWriteDone => /\ phase' = "aborted"
                          /\ panicked' = "write on cartridge ROM space"
                          /\ cpu_vram' = cpu_vram /\ ppu' = ppu
       /\ panicked' # "" => phase' = "aborted"]_vars

\* INC absolute-X with operand 0x7FFF and X = 1 has read 0x8000 and aborted
\* on its write.
C21_Witness ==
    /\ phase = "aborted" /\ last.code = 254
    /\ StoredAt(last) = 32768
    /\ panicked = "write on cartridge ROM space"

\* mem_write_u16 at 0x7FFF aborted on its high byte, at 0x8000.
C21_WitnessU16 ==
    /\ phase = "aborted" /\ last.call = "mem_write_u16" /\ last.arg[1] = 32767
    /\ panicked = "write on cartridge ROM space"

---------------------------------------------------------------------------
\* SpecUnmapped: run_with_callback where the first callback, having set the
\* registers and filled some RAM, reads an address of 0x4000..0x7FFF twice,
\* or writes it.

\* The addresses accessed: the ends of the range, the sound and input
\* registers 0x4000..0x4017 the bus does not map, and addresses inside.
UnmappedAddresses ==
    (16384..16407) \cup {16408, 20480, 24576, 28672, 32766, 32767}

\* The bytes written.
UnmappedBytes == {0, 1, 255}

CallbackUnmapped ==
    /\ phase = "callback"
    /\ iterations = 0
    /\ \E a \in UnmappedAddresses, v \in UnmappedBytes, read \in BOOLEAN, r \in RegisterFiles :
         /\ read => v = 0
         /\ Then(callback_effect(CpuRec, Setup(512, r[1], r[2], r[3], r[4], r[5],
                                               << Block(16, <<17>>), Block(2047, <<34>>) >>)),
                 LAMBDA pre :
            Then(IF read THEN mem_read(pre, a) ELSE mem_write(pre, a, v), LAMBDA s1 :
            Then(IF read THEN mem_read(s1, a) ELSE s1, LAMBDA t :
                /\ Becomes(t)
                /\ phase' = IF Ok(t) THEN "fetch" ELSE "aborted"
                /\ entry' = Snapshot(t)
                /\ last' = [NoTrace EXCEPT !.call = IF read THEN "mem_read" ELSE "mem_write",
                                           !.arg = <<a, v>>, !.ret = <<s1.ret, t.ret>>,
                                           !.before = Snapshot(pre)])))
    /\ iterations' = iterations + 1
    /\ UNCHANGED overflow_checks

NextUnmapped == CallbackUnmapped

SpecUnmapped == Init /\ [][NextUnmapped]_vars

\* C22: for every address of 0x4000..0x7FFF a bus read returns 0, twice in a
\* row, and is not fatal; a write is not fatal; neither changes RAM, the CPU
\* registers or the picture unit.
C22_UnmappedAccess ==
    (last.call \in {"mem_read", "mem_write"} /\ last.arg[1] \in 16384..32767)
        => /\ panicked = ""
           /\ last.call = "mem_read" => last.ret = <<0, 0>>
           /\ Snapshot(CpuRec) = last.before

\* The accesses the bus does treat as unmapped: all but the read of 0x4014.
C22_UnmappedButDma ==
    (last.call \in {"mem_read", "mem_write"} /\ last.arg[1] \in 16384..32767
       /\ ~(last.call = "mem_read" /\ last.arg[1] = 16404))
        => /\ panicked = ""
           /\ last.call = "mem_read" => last.ret = <<0, 0>>
           /\ Snapshot(CpuRec) = last.before

\* The read of 0x4014 is fatal.
C22_DmaReadAborts ==
    (last.call = "mem_read" /\ last.arg[1] = 16404)
        => /\ phase = "aborted"
           /\ panicked = "read from write-only PPU address"

---------------------------------------------------------------------------
\* SpecWord: run_with_callback where the first callback fills some RAM, then
\* calls mem_write_u16(a, v) and mem_read_u16(a), or mem_read_u16(a) alone.

\* The addresses of the words written: in the RAM and its mirrors, across the
\* ends of the 2 KiB, and the last address of the window (whose high byte is
\* the picture unit's control register).
WordWriteAddresses == {0, 16, 255, 511, 2046, 2047, 2048, 6143, 8190, 8191}

\* The addresses of the words only read: RAM, the last unmapped address (whose
\* high byte is the first of the ROM), and the ROM up to its last word.
WordReadAddresses == {0, 2046, 2047, 32767, 32768, 32769, 49151, 65532, 65533, 65534}

\* The high and the low bytes of the words written.
WordHalves == {0, 1, 2, 15, 16, 52, 127, 128, 171, 205, 240, 254, 255}

CallbackWord ==
    /\ phase = "callback"
    /\ iterations = 0
    /\ \E write \in BOOLEAN :
       \E a \in (IF write THEN WordWriteAddresses ELSE WordReadAddresses),
          hi \in (IF write THEN WordHalves ELSE {0}),
          lo \in (IF write THEN WordHalves ELSE {0}) :
         Then(callback_effect(CpuRec, Setup(512, 0, 0, 0, 36, STACK_RESET,
                                  << Block(0, <<17, 18>>), Block(2046, <<67, 68>>) >>)),
              LAMBDA pre :
         Then(IF write THEN mem_write_u16(pre, a, hi * 256 + lo) ELSE pre, LAMBDA s1 :
         Then(mem_read_u16(s1, a), LAMBDA t :
             /\ Becomes(t)
             /\ phase' = IF Ok(t) THEN "fetch" ELSE "aborted"
             /\ entry' = Snapshot(t)
             /\ last' = [NoTrace EXCEPT !.call = IF write THEN "mem_write_u16"
                                                 ELSE "mem_read_u16",
                                        !.arg = <<a, hi * 256 + lo>>, !.ret = t.ret,
                                        !.before = Snapshot(pre)])))
    /\ iterations' = iterations + 1
    /\ UNCHANGED overflow_checks

NextWord == CallbackWord

SpecWord == Init /\ [][NextWord]_vars

\* C23: mem_read_u16(a) returns (byte at a+1) * 256 + (byte at a);
\* mem_write_u16(a, v) stores the low byte of v at a and the high byte at
\* a+1; with both bytes in the RAM window the read after the write returns v.
C23_WordLittleEndian ==
    /\ (last.call = "mem_read_u16" /\ last.arg[1] < 65535)
         => /\ panicked = ""
            /\ last.ret = ByteAt(last.before, last.arg[1] + 1) * 256
                              + ByteAt(last.before, last.arg[1])
            /\ Snapshot(CpuRec) = last.before
    /\ last.call = "mem_write_u16"
         => LET a == last.arg[1]
                v == last.arg[2]
            IN /\ ArrGet(cpu_vram, a % 2048) = v % 256
               /\ a < 8191
                    => /\ panicked = ""
                       /\ \A i \in 0..2047 :
                             ArrGet(cpu_vram, i) =
                                IF i = (a + 1) % 2048 THEN v \div 256
                                ELSE IF i = a % 2048 THEN v % 256
                                ELSE ArrGet(last.before.cpu_vram, i)
                       /\ last.ret = v
                       /\ ppu = last.before.ppu
               /\ a = 8191 => ppu.ctrl = v \div 256

\* The word 0xABCD written at 0x07FF: 0xCD in the last RAM cell, 0xAB in the
\* first (0x0800 mirrors 0x0000), and read back whole.
C23_Witness ==
    /\ last.call = "mem_write_u16" /\ last.arg = <<2047, 43981>>
    /\ ArrGet(last.before.cpu_vram, 2047) = 68 /\ ArrGet(last.before.cpu_vram, 0) = 17
    /\ ArrGet(cpu_vram, 2047) = 205 /\ ArrGet(cpu_vram, 0) = 171
    /\ last.ret = 43981

\* The word read at 0xFFFC in the 16 KiB image: 0x2034.
C23_WitnessRead ==
    /\ last.call = "mem_read_u16" /\ last.arg[1] = 65532
    /\ prg_rom.len = 16384
    /\ last.ret = 8244

---------------------------------------------------------------------------
\* The opcode table, as Spec's first callback exercises it with every byte.

\* The table lists 256 descriptors, no code twice; the map has a descriptor
\* for every byte, under its own code.
TableIsTotal ==
    /\ Len(CPU_OPS_CODES) = 256
    /\ \A i, j \in DOMAIN CPU_OPS_CODES :
          CPU_OPS_CODES[i].code = CPU_OPS_CODES[j].code => i = j
    /\ \A i \in DOMAIN CPU_OPS_CODES : CPU_OPS_CODES[i].code \in Byte
    /\ DOMAIN OPCODES_MAP = Byte
    /\ \A c \in Byte : OPCODES_MAP[c].code = c

\* C24: the opcode table holds exactly one descriptor for each of the 256
\* byte values, under its own code; so no fetch ends in the abort for an
\* unknown opcode, an abort that comes before any register, flag or memory
\* effect of the byte.
C24_TableTotal ==
    /\ TableIsTotal
    /\ JustStepped
         => /\ last.code \in DOMAIN OPCODES_MAP
            /\ OPCODES_MAP[last.code].code = last.code
            /\ panicked # "OpCode is not recognized"
    /\ panicked = "OpCode is not recognized"
         => /\ phase = "aborted"
            /\ register_a = last.before.register_a
            /\ register_x = last.before.register_x
            /\ register_y = last.before.register_y
            /\ status = last.before.status
            /\ stack_pointer = last.before.stack_pointer
            /\ cpu_vram = last.before.cpu_vram
            /\ ppu = last.before.ppu

\* The undocumented SLO indirect-X (0x03), fetched at 0x0200 with X = 1 and
\* the carry set, found its descriptor and ran to its end.
C24_Witness ==
    /\ JustStepped /\ last.code = 3 /\ last.opcode_address = 512
    /\ last.before.register_x = 1
    /\ OPCODES_MAP[3].mnemonic = "*SLO" /\ OPCODES_MAP[3].len = 2
    /\ panicked = "" /\ phase = "callback"
    /\ program_counter = 514

---------------------------------------------------------------------------
\* SpecIndexed: run_with_callback where the first callback places one
\* instruction with an indexed operand, sets the index registers, and marks
\* the RAM cell the operand names.

\* Zero-page-X, zero-page-Y, absolute-X and absolute-Y loads and stores: LDA
\* 0xB5, STA 0x95, LDX 0xB6, STX 0x96, LDA 0xBD, STA 0x9D, LDA 0xB9, STA 0x99.
ZeroPageXCodes == {181, 149}
ZeroPageYCodes == {182, 150}
AbsoluteXCodes == {189, 157}
AbsoluteYCodes == {185, 153}

\* The undocumented absolute-indexed stores: TAS 0x9B, AHX 0x9F, SHX 0x9E
\* (indexed by Y), SHY 0x9C (indexed by X).
UndocumentedYStores == {155, 159, 158}
UndocumentedXStores == {156}

IndexedLoads == {181, 182, 189, 185}
IndexedCodes ==
    ZeroPageXCodes \cup ZeroPageYCodes \cup AbsoluteXCodes \cup AbsoluteYCodes
        \cup UndocumentedYStores \cup UndocumentedXStores

\* The operands: in the zero page, at its end, at the end of the 2 KiB, and
\* at the end of the address space.
IndexedOperands == {16, 128, 255, 1792, 2047, 65408, 65535}

\* The values of the index registers.
IndexValues == {0, 1, 128, 255}

\* The effective address the rule of the mode gives for operand w.
Effective(code, w, x, y) ==
    IF code \in ZeroPageXCodes THEN ((w % 256) + x) % 256
    ELSE IF code \in ZeroPageYCodes THEN ((w % 256) + y) % 256
    ELSE IF code \in AbsoluteXCodes \cup UndocumentedXStores THEN (w + x) % 65536
    ELSE (w + y) % 65536

\* The first invocation places the instruction at a program address, with A
\* = 0xA5, and writes 0x5A in the cell of the effective address; only
\* effective addresses in the RAM window and off the instruction are taken.
CallbackIndexed ==
    /\ iterations = 0
    /\ \E at \in ProgramAddresses, code \in IndexedCodes, w \in IndexedOperands,
          x \in IndexValues, y \in IndexValues :
         /\ Effective(code, w, x, y) \in 0..8191
         /\ Effective(code, w, x, y) % 2048 \notin at..(at + 2)
         /\ InvokeCallback(Setup(at, 165, x, y, 36, STACK_RESET,
                << Block(Effective(code, w, x, y), <<90>>),
                   Block(at, <<code, w % 256, w \div 256>>) >>))

NextIndexed == CallbackIdle \/ CallbackIndexed \/ Step

SpecIndexed == Init /\ [][NextIndexed]_vars

\* The effective address of the instruction that `last` describes.
LastEffective ==
    Effective(last.code,
              WordAt(last.before, (last.opcode_address + 1) % 65536),
              last.before.register_x, last.before.register_y)

\* The instruction ran to its end, a load read the cell of the effective
\* address, a store wrote that cell and no other.
IndexedAccessAt(e) ==
    /\ panicked = ""
    /\ last.code \in {181, 189, 185} => register_a = 90
    /\ last.code = 182 => register_x = 90
    /\ last.code \in {149, 157, 153} => ArrGet(cpu_vram, e % 2048) = 165
    /\ last.code = 150 => ArrGet(cpu_vram, e % 2048) = last.before.register_x
    /\ \A i \in 0..2047 :
          i # e % 2048 => ArrGet(cpu_vram, i) = ArrGet(last.before.cpu_vram, i)

\* C25: the index arithmetic of operand addressing wraps and never faults:
\* zero-page-X/Y gives (operand + register) mod 256, absolute-X/Y gives
\* (operand + register) mod 65536, for every opcode with an indexed mode, the
\* undocumented absolute-indexed stores TAS, AHX, SHX, SHY included.
C25_IndexWraps ==
    (iterations = 1 /\ JustStepped /\ last.code \in IndexedCodes)
        => /\ IndexedAccessAt(LastEffective)
           /\ last.code \in ZeroPageXCodes \cup ZeroPageYCodes => LastEffective \in 0..255

\* The same for the modes get_absolute_address resolves.
C25_DocumentedIndexWraps ==
    (iterations = 1 /\ JustStepped
       /\ last.code \in ZeroPageXCodes \cup ZeroPageYCodes \cup AbsoluteXCodes \cup AbsoluteYCodes)
        => /\ IndexedAccessAt(LastEffective)
           /\ last.code \in ZeroPageXCodes \cup ZeroPageYCodes => LastEffective \in 0..255

\* The undocumented stores abort only in the build that checks overflow, on
\* the sum of operand and register, and wrap otherwise.
C25_UndocumentedStoresTrap ==
    (iterations = 1 /\ JustStepped
       /\ last.code \in UndocumentedYStores \cup UndocumentedXStores)
        => IF overflow_checks
              /\ WordAt(last.before, (last.opcode_address + 1) % 65536)
                   + (IF last.code = 156 THEN last.before.register_x
                      ELSE last.before.register_y) > 65535
           THEN phase = "aborted" /\ panicked # ""
           ELSE IndexedAccessAt(LastEffective)

---------------------------------------------------------------------------
\* SpecIndirect: run_with_callback where the first callback places one
\* instruction with an indirect operand, writes the pointer it goes through
\* in the zero page, and marks the RAM cell the pointer names.

\* Indirect-X: LDA 0xA1, STA 0x81.  Indirect-Y: LDA 0xB1, STA 0x91, and the
\* undocumented AHX 0x93.
IndirectXCodes == {161, 129}
IndirectYCodes == {177, 145, 147}

\* The operand bytes: inside the zero page and at its end.
IndirectOperands == {16, 128, 254, 255}

\* The words the zero-page pointer holds.
PointerWords == {768, 1791, 65408, 65535}

\* Where the pointer's low byte is read: (b + X) mod 256 for indirect-X, b
\* for indirect-Y.
PointerAt(code, b, x) == IF code \in IndirectXCodes THEN (b + x) % 256 ELSE b

\* The effective address, the pointer holding the word t.
IndirectEffective(code, t, y) == IF code \in IndirectXCodes THEN t ELSE (t + y) % 65536

\* The first invocation writes 0x05 at 0x0100 (the cell after the zero page),
\* the word t at p and (p + 1) mod 256, 0x5A in the cell of the effective
\* address, and the instruction, with A = 0xA5; only effective addresses in
\* the RAM window and off the instruction, the pointer and 0x0100 are taken.
CallbackIndirect ==
    /\ iterations = 0
    /\ \E at \in ProgramAddresses, code \in IndirectXCodes \cup IndirectYCodes,
          b \in IndirectOperands, t \in PointerWords, x \in IndexValues, y \in IndexValues :
         /\ IndirectEffective(code, t, y) \in 0..8191
         /\ IndirectEffective(code, t, y) % 2048
               \notin (at..(at + 1)) \cup {PointerAt(code, b, x), (PointerAt(code, b, x) + 1) % 256, 256}
         /\ InvokeCallback(Setup(at, 165, x, y, 36, STACK_RESET,
                << Block(256, <<5>>),
                   Block(PointerAt(code, b, x), << t % 256 >>),
                   Block((PointerAt(code, b, x) + 1) % 256, << t \div 256 >>),
                   Block(IndirectEffective(code, t, y), <<90>>),
                   Block(at, <<code, b>>) >>))

NextIndirect == CallbackIdle \/ CallbackIndirect \/ Step

SpecIndirect == Init /\ [][NextIndirect]_vars

\* The pointer of the instruction that `last` describes, and the word the
\* rule reads there: low byte at p, high byte at (p + 1) mod 256.
LastPointer ==
    PointerAt(last.code, ByteAt(last.before, (last.opcode_address + 1) % 65536),
              last.before.register_x)
LastPointerWord ==
    ByteAt(last.before, LastPointer) + 256 * ByteAt(last.before, (LastPointer + 1) % 256)

\* The instruction ran to its end; a load read the cell at e, a store wrote
\* that cell and no other.
IndirectAccessAt(e) ==
    /\ panicked = ""
    /\ last.code \in {161, 177} => register_a = ByteAt(last.before, e)
    /\ last.code \in {129, 145} => ArrGet(cpu_vram, e % 2048) = 165
    /\ \A i \in 0..2047 :
          i # e % 2048 => ArrGet(cpu_vram, i) = ArrGet(last.before.cpu_vram, i)

\* C26: indirect-X with operand b takes the pointer p = (b + X) mod 256 and
\* the word whose low byte is at p and whose high byte is at (p + 1) mod 256,
\* both in the zero page, also when p = 0xFF.
C26_IndirectX ==
    (iterations = 1 /\ JustStepped /\ last.code \in IndirectXCodes)
        => /\ LastPointer \in 0..255
           /\ IndirectAccessAt(LastPointerWord)
           /\ last.code = 161 => register_a = 90

\* LDA (0xFE,X) with X = 1: the pointer is at 0xFF, its high byte at 0x00,
\* not at 0x0100; the byte loaded is the one at 0x06FF.
C26_Witness ==
    /\ iterations = 1 /\ JustStepped /\ last.code = 161
    /\ ByteAt(last.before, 513) = 254 /\ last.before.register_x = 1
    /\ LastPointer = 255
    /\ ByteAt(last.before, 255) = 255 /\ ByteAt(last.before, 0) = 6
    /\ ByteAt(last.before, 256) = 5
    /\ ByteAt(last.before, 1791) = 90 /\ ByteAt(last.before, 1535) = 0
    /\ register_a = 90

\* C27: indirect-Y with operand b reads the low byte of the base at b and the
\* high byte at (b + 1) mod 256 and gives (base + Y) mod 65536; AHX 0x93
\* computes its store address by the same rule.
C27_IndirectY ==
    (iterations = 1 /\ JustStepped /\ last.code \in IndirectYCodes)
        => /\ IndirectAccessAt((LastPointerWord + last.before.register_y) % 65536)
           /\ last.code = 177 => register_a = 90

\* The same for the instructions that get_absolute_address resolves.
C27_DocumentedIndirectY ==
    (iterations = 1 /\ JustStepped /\ last.code \in {177, 145})
        => /\ IndirectAccessAt((LastPointerWord + last.before.register_y) % 65536)
           /\ last.code = 177 => register_a = 90

\* LDA (0xFF),Y with the base 0x06FF and Y = 1: the base's high byte is read
\* at 0x00 and the byte loaded is the one at 0x0700.
C27_WitnessDocumented ==
    /\ iterations = 1 /\ JustStepped /\ last.code = 177
    /\ ByteAt(last.before, 513) = 255 /\ last.before.register_y = 1
    /\ LastPointerWord = 1791 /\ ByteAt(last.before, 256) = 5
    /\ panicked = "" /\ register_a = 90

\* AHX (0xFF),Y reads the high byte of its base, 0x05, at 0x0100 and with
\* Y = 1 stores at 0x0600, whatever the build.
C27_AhxPointerUnwrapped ==
    (iterations = 1 /\ JustStepped /\ last.code = 147
       /\ ByteAt(last.before, 513) = 255 /\ last.before.register_y = 1
       /\ last.before.register_x = 255 /\ LastPointerWord = 1791)
        => /\ panicked = ""
           /\ ArrGet(cpu_vram, 1536) = 4
           /\ ArrGet(cpu_vram, 1792) = 90

---------------------------------------------------------------------------
\* The callback and the loop, under Spec.

\* C28: each loop iteration invokes the callback once, before the fetch; the
\* fetch and the instruction of the iteration run on the state the callback
\* left; so when n instructions have run, the final BRK included, the
\* callback has been invoked n times.  (`iterations` counts the invocations;
\* `last` changes with each instruction.)
C28_CallbackPerIteration ==
    [][/\ phase = "callback"
            => /\ iterations' = iterations + 1
               /\ last' = last
               /\ phase' \in {"fetch", "aborted"}
       /\ phase = "fetch"
            => /\ iterations' = iterations
               /\ phase' \in {"callback", "halted", "aborted"}
               /\ last'.before = Snapshot(CpuRec)
               /\ last'.opcode_address = program_counter
               /\ last'.code = ByteAt(CpuRec, program_counter)
       /\ phase \in {"callback", "fetch"}]_vars

\* Two instructions have run, the second a BRK, after two invocations: the
\* first callback wrote LDA #0xFF at 0x0200 and set the program counter
\* there; the fetch found the LDA and A is 0xFF.
C28_Witness ==
    /\ phase = "halted" /\ iterations = 2 /\ last.code = 0
    /\ entry.program_counter = 512 /\ ByteAt(entry, 512) = 169 /\ ByteAt(entry, 513) = 255
    /\ last.opcode_address = 514
    /\ register_a = 255 /\ last.before.register_a = 255 /\ entry.register_a = 0

---------------------------------------------------------------------------
\* SpecFrame: run_with_callback where the first callback places a flag
\* instruction, a transfer or a store, with the registers and the status set.

\* CLC, SEC, CLI, SEI, CLV, CLD, SED.
FlagCodes == {24, 56, 88, 120, 184, 216, 248}

\* TAX, TAY, TSX, TXA, TYA, TXS.
TransferCodes == {170, 168, 186, 138, 152, 154}

\* STA, STX, STY, zero page (operand 0x10) and absolute (operand 0x0310).
StoreCodes == {133, 134, 132, 141, 142, 140}

\* The registers at a transfer or a store: A, X, Y and the stack pointer
\* take values that tell them apart, zero and negative ones among them.
FrameA == {0, 65, 128}
FrameX == {0, 66, 255}
FrameY == {0, 67, 144}
FrameSp == {0, 132, STACK_RESET}

\* The status bytes at a transfer or a store.
FrameStatuses == {36, 166, 255}

\* The first invocation places a flag instruction, with any status byte.
CallbackFlagOp ==
    /\ iterations = 0
    /\ \E at \in ProgramAddresses, code \in FlagCodes, st \in Byte, r \in RegisterFiles :
         InvokeCallback(Setup(at, r[1], r[2], r[3], st, r[5],
                              << Block(16, <<119>>), Block(at, <<code>>) >>))

\* The first invocation places a transfer or a store.
CallbackTransfer ==
    /\ iterations = 0
    /\ \E at \in ProgramAddresses, code \in TransferCodes \cup StoreCodes,
          a \in FrameA, x \in FrameX, y \in FrameY, sp \in FrameSp, st \in FrameStatuses :
         InvokeCallback(Setup(at, a, x, y, st, sp,
                              << Block(16, <<119>>), Block(at, <<code, 16, 3>>) >>))

NextFrame == CallbackIdle \/ CallbackFlagOp \/ CallbackTransfer \/ Step

SpecFrame == Init /\ [][NextFrame]_vars

\* Status byte st with the bit of weight w set, or cleared.
WithBit(st, w, on) ==
    st - (IF (st \div w) % 2 = 1 THEN w ELSE 0) + (IF on THEN w ELSE 0)

\* The bit a flag instruction names, and whether it sets it.
FlagBit(code) ==
    CASE code \in {24, 56} -> 1
      [] code \in {88, 120} -> 4
      [] code \in {216, 248} -> 8
      [] OTHER -> 64
FlagSets(code) == code \in {56, 120, 248}

\* C29: CLC, SEC, CLI, SEI, CLD, SED, CLV set or clear their one status bit
\* and leave the other seven bits, A, X, Y, the stack pointer and all memory
\* unchanged.
C29_FlagInstructions ==
    (iterations = 1 /\ JustStepped /\ last.code \in FlagCodes)
        => /\ panicked = ""
           /\ status = WithBit(last.before.status, FlagBit(last.code), FlagSets(last.code))
           /\ register_a = last.before.register_a
           /\ register_x = last.before.register_x
           /\ register_y = last.before.register_y
           /\ stack_pointer = last.before.stack_pointer
           /\ cpu_vram = last.before.cpu_vram
           /\ ppu = last.before.ppu

\* CLV with every status bit set: only the overflow bit falls.
C29_Witness ==
    /\ iterations = 1 /\ JustStepped /\ last.code = 184
    /\ last.before.status = 255 /\ status = 191
    /\ register_a = 128 /\ stack_pointer = 0 /\ ByteAt(CpuRec, 16) = 119

\* Status byte st with Z and N set from byte v.
WithZeroNegative(st, v) == WithBit(WithBit(st, 2, v = 0), 128, v >= 128)

\* The source and the destination of a transfer.
TransferSource(code) ==
    CASE code \in {170, 168} -> "register_a"
      [] code \in {138, 154} -> "register_x"
      [] code = 152 -> "register_y"
      [] OTHER -> "stack_pointer"
TransferDestination(code) ==
    CASE code \in {138, 152} -> "register_a"
      [] code \in {170, 186} -> "register_x"
      [] code = 168 -> "register_y"
      [] OTHER -> "stack_pointer"

\* The register a store writes, and the address it writes at.
StoreSource(code) ==
    CASE code \in {133, 141} -> "register_a"
      [] code \in {134, 142} -> "register_x"
      [] OTHER -> "register_y"
StoreAddress(code) == IF code \in {133, 134, 132} THEN 16 ELSE 784

\* C30: a transfer copies the source register to the destination and leaves
\* the source and the other registers unchanged; TAX, TAY, TSX, TXA, TYA set
\* Z and N from the copied value, TXS changes no status bit; STA, STX, STY
\* change no status bit and no register.
C30_TransfersAndStores ==
    /\ (iterations = 1 /\ JustStepped /\ last.code \in TransferCodes)
         => LET v == last.before[TransferSource(last.code)]
                now == Snapshot(CpuRec)
            IN /\ panicked = ""
               /\ now[TransferDestination(last.code)] = v
               /\ \A f \in {"register_a", "register_x", "register_y", "stack_pointer"} :
                     f # TransferDestination(last.code) => now[f] = last.before[f]
               /\ status = IF last.code = 154 THEN last.before.status
                           ELSE WithZeroNegative(last.before.status, v)
               /\ cpu_vram = last.before.cpu_vram
    /\ (iterations = 1 /\ JustStepped /\ last.code \in StoreCodes)
         => /\ panicked = ""
            /\ status = last.before.status
            /\ register_a = last.before.register_a
            /\ register_x = last.before.register_x
            /\ register_y = last.before.register_y
            /\ stack_pointer = last.before.stack_pointer
            /\ \A i \in 0..2047 :
                  ArrGet(cpu_vram, i) =
                     IF i = StoreAddress(last.code) THEN last.before[StoreSource(last.code)]
                     ELSE ArrGet(last.before.cpu_vram, i)

\* TSX with the stack pointer at 0x84, Z and N set before: X is 0x84, N
\* stays set and Z is cleared.
C30_Witness ==
    /\ iterations = 1 /\ JustStepped /\ last.code = 186
    /\ last.before.stack_pointer = 132 /\ last.before.register_x = 66
    /\ last.before.status = 166
    /\ register_x = 132 /\ stack_pointer = 132 /\ status = 164

\* TXS with X = 0xFF: the status byte keeps N clear.
C30_WitnessTxs ==
    /\ iterations = 1 /\ JustStepped /\ last.code = 154
    /\ last.before.register_x = 255 /\ last.before.stack_pointer = 0
    /\ last.before.status = 36
    /\ stack_pointer = 255 /\ register_x = 255 /\ status = 36

\* STX absolute with X = 0 on a cell that held 0: status 0xFF stays 0xFF.
C30_WitnessStore ==
    /\ iterations = 1 /\ JustStepped /\ last.code = 142
    /\ last.before.register_x = 0 /\ last.before.status = 255
    /\ status = 255 /\ ByteAt(CpuRec, 784) = 0 /\ ByteAt(CpuRec, 16) = 119

---------------------------------------------------------------------------
\* SpecShift: run_with_callback where the first callback places a shift or a
\* rotation, of the accumulator or of a zero-page cell, or nine rotations of
\* the accumulator in a row.

\* The rotations of the accumulator run in a row.
MaxRotations == 9

\* ASL, LSR, ROL, ROR of the accumulator; of a zero-page cell; of a cell at an
\* absolute address.
AccumulatorShiftCodes == {10, 74, 42, 106}
ZeroPageShiftCodes == {6, 70, 38, 102}
AbsoluteShiftCodes == {14, 78, 46, 110}
ShiftCodes == AccumulatorShiftCodes \cup ZeroPageShiftCodes \cup AbsoluteShiftCodes

LeftCodes == {10, 6, 14, 42, 38, 46}
RotateCodes == {42, 38, 46, 106, 102, 110}

\* The status bytes at a shift: carry clear with Z, V, N clear; carry set with
\* Z, V, N set.
ShiftStatuses == {36, 231}

\* The bytes shifted at an absolute address.
AbsoluteShiftBytes == {0, 1, 85, 128, 129, 255}

\* The first invocation places one shift of byte v: v is in A for the
\* accumulator variant, in cell 0x10 for the zero-page one, in cell 0x0310 for
\* the absolute one; the other of A and the cell holds 0x3C.
CallbackShift ==
    /\ iterations = 0
    /\ \E at \in ProgramAddresses, code \in ShiftCodes, v \in Byte, st \in ShiftStatuses :
         /\ code \in AbsoluteShiftCodes => v \in AbsoluteShiftBytes
         /\ InvokeCallback(Setup(at, IF code \in AccumulatorShiftCodes THEN v ELSE 60,
                                 0, 0, st, STACK_RESET,
                << Block(16, << IF code \in ZeroPageShiftCodes THEN v ELSE 60 >>),
                   Block(784, << IF code \in AbsoluteShiftCodes THEN v ELSE 60 >>),
                   Block(at, <<code, 16, 3>>) >>))

\* The first invocation places nine ROL A, or nine ROR A.
CallbackRotations ==
    /\ iterations = 0
    /\ \E at \in ProgramAddresses, code \in {42, 106}, v \in Byte, c \in {0, 1} :
         InvokeCallback(Setup(at, v, 0, 0, 36 + c, STACK_RESET,
                << Block(at, <<code, code, code, code, code, code, code, code, code>>) >>))

\* The later iterations run with the closure of CPU::run.
CallbackShiftIdle ==
    /\ iterations \in 1..(MaxRotations - 1)
    /\ InvokeCallback(Idle)

NextShift == CallbackShift \/ CallbackRotations \/ CallbackShiftIdle \/ Step

SpecShift == Init /\ [][NextShift]_vars

\* The byte a shift finds in its location, and the byte there afterwards.
ShiftOperand(l) ==
    IF l.code \in AccumulatorShiftCodes THEN l.before.register_a
    ELSE IF l.code \in ZeroPageShiftCodes THEN ByteAt(l.before, 16)
    ELSE ByteAt(l.before, 784)
ShiftResult ==
    IF last.code \in AccumulatorShiftCodes THEN register_a
    ELSE IF last.code \in ZeroPageShiftCodes THEN ByteAt(CpuRec, 16)
    ELSE ByteAt(CpuRec, 784)

\* The byte the rule gives: the operand moved by one bit, the vacated bit 0
\* for ASL and LSR and the carry before for ROL and ROR.
ShiftExpected(code, v, cin) ==
    IF code \in LeftCodes
    THEN ((2 * v) % 256) + (IF code \in RotateCodes THEN cin ELSE 0)
    ELSE (v \div 2) + (IF code \in RotateCodes THEN 128 * cin ELSE 0)

\* The first callback placed nine rotations of the accumulator.
EntryRotations ==
    /\ entry # << >>
    /\ ByteAt(entry, 512) \in {42, 106}
    /\ \A i \in 1..8 : ByteAt(entry, 512 + i) = ByteAt(entry, 512)

\* C31: ASL, LSR, ROL, ROR, of the accumulator and of memory: the carry
\* becomes the bit moved out (bit 7 to the left, bit 0 to the right), the
\* vacated bit is 0 for ASL and LSR and the carry before for ROL and ROR, the
\* result is written back where the operand was, Z and N follow the result;
\* nine ROL A, or nine ROR A, restore the accumulator and the carry.
C31_ShiftsAndRotations ==
    /\ (JustStepped /\ last.code \in ShiftCodes
           /\ (iterations = 1 \/ EntryRotations) /\ iterations <= 9)
         => LET v == ShiftOperand(last)
                cin == last.before.status % 2
                r == ShiftExpected(last.code, v, cin)
                cout == IF last.code \in LeftCodes THEN v >= 128 ELSE v % 2 = 1
            IN /\ panicked = ""
               /\ ShiftResult = r
               /\ status = WithZeroNegative(WithBit(last.before.status, 1, cout), r)
               /\ last.code \notin AccumulatorShiftCodes
                     => register_a = last.before.register_a
               /\ \A i \in 0..2047 :
                     ( \/ last.code \in AccumulatorShiftCodes
                       \/ i # (IF last.code \in ZeroPageShiftCodes THEN 16 ELSE 784) )
                        => ArrGet(cpu_vram, i) = ArrGet(last.before.cpu_vram, i)
               /\ register_x = last.before.register_x
               /\ register_y = last.before.register_y
               /\ stack_pointer = last.before.stack_pointer
    /\ (JustStepped /\ EntryRotations /\ iterations = 9 /\ last.code \in {42, 106})
         => /\ register_a = entry.register_a
            /\ status % 2 = entry.status % 2

\* ROR of the zero-page cell holding 0x01 with the carry set: the cell holds
\* 0x80, the carry stays set (bit 0 went out), N is set and Z cleared.
C31_Witness ==
    /\ iterations = 1 /\ JustStepped /\ last.code = 102
    /\ ByteAt(last.before, 16) = 1 /\ last.before.status = 231
    /\ ByteAt(CpuRec, 16) = 128 /\ register_a = 60
    /\ status = 229

\* Nine ROL A from A = 0x81 with the carry clear: A is 0x81 and the carry
\* clear again, after A was 0x02 with the carry set.
C31_WitnessNine ==
    /\ iterations = 9 /\ JustStepped /\ EntryRotations /\ last.code = 42
    /\ entry.register_a = 129 /\ entry.status = 36
    /\ register_a = 129 /\ status % 2 = 0
    /\ last.before.register_a = 64 /\ last.before.status % 2 = 1

---------------------------------------------------------------------------
\* SpecMirror: NesPPU::mirror_vram_addr applied to addresses of
\* 0x2000..0x3EFF, under the mirroring of each ROM image.

\* The addresses mirrored: the first and the last byte of each page of
\* 0x2000..0x3EFF.
MirrorAddresses == { 8192 + 256 * k + off : k \in 0..30, off \in {0, 255} }

\* mirror_vram_addr(address) is applied on the picture unit.
CallMirrorVramAddr ==
    /\ phase = "callback"
    /\ iterations = 0
    /\ \E address \in MirrorAddresses :
         Then(mirror_vram_addr(CpuRec, address), LAMBDA t :
              /\ Becomes(t)
              /\ phase' = IF Ok(t) THEN "callback" ELSE "aborted"
              /\ last' = [NoTrace EXCEPT !.call = "mirror_vram_addr", !.arg = address,
                                         !.ret = t.ret, !.before = Snapshot(CpuRec)])
    /\ iterations' = iterations + 1
    /\ UNCHANGED <<overflow_checks, entry>>

NextMirror == CallMirrorVramAddr

SpecMirror == Init /\ [][NextMirror]_vars

\* The index of the rule: an address of 0x3000..0x3EFF counts as the one
\* 0x1000 lower; name tables 0 and 2, and 1 and 3, share under vertical
\* mirroring; 0 and 1, and 2 and 3, under horizontal mirroring.
MirrorIndex(mirroring, address) ==
    LET vram_index == (IF address >= 12288 THEN address - 4096 ELSE address) - 8192
        name_table == vram_index \div 1024
    IN IF mirroring = "Vertical" THEN vram_index % 2048
       ELSE 1024 * (name_table \div 2) + (vram_index % 1024)

MirrorDone == last.call = "mirror_vram_addr"

\* C40: mirror_vram_addr returns an index in 0..2047 for every address in
\* 0x2000..0x3EFF under both mirrorings: 0x3000..0x3EFF map as the address
\* 0x1000 lower; vertical mirroring shares name tables 0/2 and 1/3,
\* horizontal mirroring 0/1 and 2/3.
C40_MirrorVramAddr ==
    (MirrorDone /\ last.arg \in 8192..16127)
      => /\ panicked = ""
         /\ last.ret \in 0..2047
         /\ last.ret = MirrorIndex(ppu.mirroring, last.arg)

\* The rule holds of the addresses 0x2000..0x2FFF.
C40_NameTablesShare ==
    (MirrorDone /\ last.arg \in 8192..12287)
      => /\ panicked = ""
         /\ last.ret \in 0..2047
         /\ last.ret = MirrorIndex(ppu.mirroring, last.arg)

\* What the code does with 0x3000..0x3EFF: the mask 0b1011111111111111
\* clears bit 14 and keeps bit 12, the name table is 4 to 7, and the index
\* is the address less 0x2000.
C40_HighAddressesUnmirrored ==
    (MirrorDone /\ last.arg \in 12288..16127)
      => /\ panicked = ""
         /\ last.ret = last.arg - 8192

\* The address 0x3000 under horizontal mirroring gives the index 0x1000.
C40_IndexOutOfRange ==
    /\ MirrorDone /\ last.arg = 12288 /\ ppu.mirroring = "Horizontal"
    /\ panicked = "" /\ last.ret = 4096

\* The address 0x2CFF, in name table 3, under vertical mirroring gives the
\* index 0x04FF of name table 1.
C40_WitnessVertical ==
    /\ MirrorDone /\ last.arg = 11519 /\ ppu.mirroring = "Vertical"
    /\ panicked = "" /\ last.ret = 1279

---------------------------------------------------------------------------
\* SpecCount: run_with_callback where the first callback places an increment
\* or a decrement, of a memory cell or of an index register.

\* INC and DEC of a zero-page cell and of a cell at an absolute address;
\* INX, INY, DEX, DEY.
MemoryCountCodes == {230, 238, 198, 206}
RegisterCountCodes == {232, 200, 202, 136}
CountCodes == MemoryCountCodes \cup RegisterCountCodes
UpCodes == {230, 238, 232, 200}

\* The status bytes at a count: carry and overflow clear, carry and overflow
\* set.
CountStatuses == {36, 231}

\* The first invocation places one count of byte v: v is in X for INX and DEX,
\* in Y for INY and DEY, in cell 0x10 for the zero-page forms and in cell
\* 0x0310 for the absolute ones; the other three hold 0x3C. A register count
\* is placed twice in a row.
CallbackCount ==
    /\ iterations = 0
    /\ \E at \in ProgramAddresses, code \in CountCodes, v \in Byte, st \in CountStatuses :
         InvokeCallback(Setup(at, 7,
                IF code \in {232, 202} THEN v ELSE 60,
                IF code \in {200, 136} THEN v ELSE 60,
                st, STACK_RESET,
                << Block(16, << IF code \in {230, 198} THEN v ELSE 60 >>),
                   Block(784, << IF code \in {238, 206} THEN v ELSE 60 >>),
                   Block(at, IF code \in RegisterCountCodes THEN <<code, code, 0>>
                             ELSE IF code \in {230, 198} THEN <<code, 16, 0>>
                             ELSE <<code, 16, 3, 0>>) >>))

NextCount == CallbackCount \/ CallbackIdle \/ Step

SpecCount == Init /\ [][NextCount]_vars

\* The byte in the location a count is about, in snapshot snap.
CountLocation(code, snap) ==
    IF code \in {232, 202} THEN snap.register_x
    ELSE IF code \in {200, 136} THEN snap.register_y
    ELSE IF code \in {230, 198} THEN ByteAt(snap, 16)
    ELSE ByteAt(snap, 784)

\* C32: INC, DEC of memory and INX, INY, DEX, DEY add or subtract 1 modulo
\* 256, set Z and N from the result and never change carry or overflow (nor
\* anything but the location counted); from X = 0xFF two INX give X = 1.
C32_Counts ==
    /\ (JustStepped /\ last.code \in CountCodes /\ iterations \in {1, 2})
         => LET v == CountLocation(last.code, last.before)
                r == IF last.code \in UpCodes THEN (v + 1) % 256 ELSE (v + 255) % 256
            IN /\ panicked = ""
               /\ CountLocation(last.code, CpuRec) = r
               /\ status = WithZeroNegative(last.before.status, r)
               /\ status % 2 = last.before.status % 2
               /\ (status \div 64) % 2 = (last.before.status \div 64) % 2
               /\ register_a = last.before.register_a
               /\ last.code \notin {232, 202} => register_x = last.before.register_x
               /\ last.code \notin {200, 136} => register_y = last.before.register_y
               /\ stack_pointer = last.before.stack_pointer
               /\ \A i \in 0..2047 :
                     ( \/ last.code \in RegisterCountCodes
                       \/ i # (IF last.code \in {230, 198} THEN 16 ELSE 784) )
                        => ArrGet(cpu_vram, i) = ArrGet(last.before.cpu_vram, i)
    /\ (JustStepped /\ last.code = 232 /\ iterations = 2 /\ entry.register_x = 255)
         => register_x = 1

\* Two INX from X = 0xFF with carry and overflow set: X is 1, carry and
\* overflow still set, Z and N clear.
C32_Witness ==
    /\ JustStepped /\ last.code = 232 /\ iterations = 2
    /\ entry.register_x = 255 /\ entry.status = 231
    /\ last.before.register_x = 0 /\ last.before.status = 103
    /\ register_x = 1 /\ status = 101

\* DEC of the absolute cell holding 0x00 with carry and overflow clear: the
\* cell holds 0xFF, N is set, carry and overflow still clear.
C32_WitnessMemory ==
    /\ JustStepped /\ last.code = 206 /\ iterations = 1
    /\ ByteAt(last.before, 784) = 0 /\ last.before.status = 36
    /\ ByteAt(CpuRec, 784) = 255 /\ status = 164

---------------------------------------------------------------------------
\* SpecRti: run_with_callback where the first callback places an RTI and the
\* three bytes it pops.

\* The stack pointers at an RTI: the third pop wraps from 0xFF to 0x00 at 0xFD,
\* the second at 0xFE, the first at 0xFF.
RtiStackPointers == {250, 253, 254, 255}

\* The return addresses on the stack: the address just after the RTI at
\* 0x0200, and three others.
RtiTargets == {513, 255, 1536, 2047}

\* The first invocation places RTI at 0x0200 and, above the stack pointer,
\* a status byte and the two bytes of a return address, low byte first.
CallbackRti ==
    /\ iterations = 0
    /\ \E at \in ProgramAddresses, p \in Byte, sp \in RtiStackPointers, t \in RtiTargets :
         InvokeCallback(Setup(at, 7, 8, 9, 36, sp,
                << Block(STACK + ((sp + 1) % 256), <<p>>),
                   Block(STACK + ((sp + 2) % 256), << t % 256 >>),
                   Block(STACK + ((sp + 3) % 256), << t \div 256 >>),
                   Block(at, <<64>>) >>))

NextRti == CallbackRti \/ CallbackIdle \/ Step

SpecRti == Init /\ [][NextRti]_vars

\* C33: RTI pops the status (BREAK forced to 0, BREAK2 to 1), then a 16-bit
\* program counter, low byte first, and resumes exactly there: nothing is
\* added to it, also when it is the address just after the RTI; the stack
\* pointer ends 3 higher modulo 256; nothing else changes.
C33_Rti ==
    (JustStepped /\ last.code = 64 /\ iterations = 1)
      => LET sp == last.before.stack_pointer
             p == ByteAt(last.before, STACK + ((sp + 1) % 256))
             lo == ByteAt(last.before, STACK + ((sp + 2) % 256))
             hi == ByteAt(last.before, STACK + ((sp + 3) % 256))
         IN /\ panicked = ""
            /\ status = WithBit(WithBit(p, BREAK, FALSE), BREAK2, TRUE)
            /\ program_counter = lo + 256 * hi
            /\ stack_pointer = (sp + 3) % 256
            /\ register_a = last.before.register_a
            /\ register_x = last.before.register_x
            /\ register_y = last.before.register_y
            /\ cpu_vram = last.before.cpu_vram

\* RTI with the stack pointer at 0xFE: status 0xD3 popped from 0x01FF becomes
\* 0xE3, the program counter 0x0600 comes from 0x0100 and 0x0101, the stack
\* pointer ends at 0x01.
C33_Witness ==
    /\ JustStepped /\ last.code = 64 /\ iterations = 1
    /\ last.before.stack_pointer = 254
    /\ ByteAt(last.before, 511) = 211
    /\ status = 227 /\ program_counter = 1536 /\ stack_pointer = 1

\* RTI at 0x0200 returning to 0x0201: the program counter is 0x0201.
C33_WitnessNext ==
    /\ JustStepped /\ last.code = 64 /\ iterations = 1
    /\ last.opcode_address = 512 /\ program_counter = 513

---------------------------------------------------------------------------
\* SpecFused: run_with_callback where the first callback places one of the
\* undocumented read-modify-write instructions RLA, SLO, SRE, RRA, ISB, in
\* one of its seven addressing modes.

RlaCodes == {39, 55, 47, 63, 59, 51, 35}
SloCodes == {7, 23, 15, 31, 27, 3, 19}
SreCodes == {71, 87, 79, 95, 91, 67, 83}
RraCodes == {103, 119, 111, 127, 123, 99, 115}
IsbCodes == {231, 247, 239, 255, 251, 227, 243}
FusedCodes == RlaCodes \cup SloCodes \cup SreCodes \cup RraCodes \cup IsbCodes

\* The bytes in memory and in the accumulator at a combined instruction.
FusedBytes == {0, 1, 15, 127, 128, 170, 254, 255}
FusedAccumulators == {0, 1, 85, 128, 255}

\* With X = 4 and Y = 6 every mode resolves to cell 0x30 (the zero-page
\* modes) or to cell 0x0310 (the others): these are the operand bytes, and
\* the word the pointer cell 0x20 must hold.
FusedOperand(mode) ==
    CASE mode = "ZeroPage" -> <<48, 0>>
      [] mode = "ZeroPage_X" -> <<44, 0>>
      [] mode = "Absolute" -> <<16, 3>>
      [] mode = "Absolute_X" -> <<12, 3>>
      [] mode = "Absolute_Y" -> <<10, 3>>
      [] mode = "Indirect_X" -> <<28, 0>>
      [] OTHER -> <<32, 0>>
FusedPointer(mode) == IF mode = "Indirect_Y" THEN <<10, 3>> ELSE <<16, 3>>
FusedCell(mode) == IF mode \in {"ZeroPage", "ZeroPage_X"} THEN 48 ELSE 784

\* The first invocation places the instruction with byte v in the cell it
\* resolves to, a in the accumulator and carry c.
CallbackFused ==
    /\ iterations = 0
    /\ \E at \in ProgramAddresses, code \in FusedCodes, v \in FusedBytes,
          a \in FusedAccumulators, c \in {0, 1} :
         LET mode == OPCODES_MAP[code].mode
         IN InvokeCallback(Setup(at, a, 4, 6, 36 + c, STACK_RESET,
                << Block(32, FusedPointer(mode)),
                   Block(FusedCell(mode), <<v>>),
                   Block(at, <<code>> \o FusedOperand(mode)) >>))

NextFused == CallbackFused \/ CallbackIdle \/ Step

SpecFused == Init /\ [][NextFused]_vars

\* The CPU as the dispatch arm of the instruction `last` describes found it.
AtDispatch ==
    [CpuRec EXCEPT !.register_a = last.before.register_a,
                   !.register_x = last.before.register_x,
                   !.register_y = last.before.register_y,
                   !.status = last.before.status,
                   !.stack_pointer = last.before.stack_pointer,
                   !.cpu_vram = last.before.cpu_vram,
                   !.ppu = last.before.ppu,
                   !.program_counter = last.opcode_address + 1,
                   !.panicked = ""]

\* The documented read-modify-write instruction, then the documented
\* accumulator instruction, both in the mode of the undocumented one.
DocumentedPair(code, s, mode) ==
    CASE code \in RlaCodes -> and(rol(s, mode), mode)
      [] code \in SloCodes -> ora(asl(s, mode), mode)
      [] code \in SreCodes -> eor(lsr(s, mode), mode)
      [] code \in RraCodes -> adc(ror(s, mode), mode)
      [] OTHER -> sbc(inc(s, mode), mode)

\* C34: RLA, SLO, SRE, RRA, ISB, in each of their addressing modes, leave the
\* registers, the flags and the memory that the documented ROL, ASL, LSR,
\* ROR, INC followed by the documented AND, ORA, EOR, ADC, SBC on the
\* modified byte leave.
C34_CombinedInstructions ==
    (JustStepped /\ last.code \in FusedCodes /\ iterations = 1)
      => LET mode == OPCODES_MAP[last.code].mode
             d == DocumentedPair(last.code, AtDispatch, mode)
         IN /\ panicked = "" /\ d.panicked = ""
            /\ register_a = d.register_a
            /\ register_x = d.register_x
            /\ register_y = d.register_y
            /\ status = d.status
            /\ stack_pointer = d.stack_pointer
            /\ cpu_vram = d.cpu_vram
            /\ ByteAt(CpuRec, FusedCell(mode)) # ByteAt(last.before, FusedCell(mode))
                 \/ ByteAt(last.before, FusedCell(mode)) \in {0, 255}

\* SLO (indirect),Y of 0xAA with A = 0x55: the cell holds 0x54, A is 0x55,
\* the carry is set.
C34_Witness ==
    /\ JustStepped /\ last.code = 19 /\ iterations = 1
    /\ ByteAt(last.before, 784) = 170 /\ last.before.register_a = 85
    /\ last.before.status = 36
    /\ ByteAt(CpuRec, 784) = 84 /\ register_a = 85 /\ status = 37

\* ISB absolute,X of 0xFF with A = 0x01 and the carry set: the cell holds
\* 0x00, A is 0x01, the carry is set.
C34_WitnessIsb ==
    /\ JustStepped /\ last.code = 255 /\ iterations = 1
    /\ ByteAt(last.before, 784) = 255 /\ last.before.register_a = 1
    /\ last.before.status = 37
    /\ ByteAt(CpuRec, 784) = 0 /\ register_a = 1 /\ status = 37

---------------------------------------------------------------------------
\* SpecDcp: run_with_callback where the first callback places a DCP, in one
\* of its seven addressing modes, or an AXS.

DcpCodes == {199, 215, 207, 223, 219, 211, 195}
AxsCodes == {203}

\* The bytes in memory, in the accumulator and in X at a DCP or an AXS.
DcpBytes == {0, 1, 2, 128, 129, 255}
DcpAccumulators == {0, 1, 127, 128, 255}
AxsIndexes == {0, 15, 129, 255}

\* The first invocation places a DCP with byte m in the cell it resolves to
\* (with X = 4 and Y = 6, as for the combined instructions), a in the
\* accumulator and carry c.
CallbackDcp ==
    /\ iterations = 0
    /\ \E at \in ProgramAddresses, code \in DcpCodes, m \in DcpBytes,
          a \in DcpAccumulators, c \in {0, 1} :
         LET mode == OPCODES_MAP[code].mode
         IN InvokeCallback(Setup(at, a, 4, 6, 36 + c, STACK_RESET,
                << Block(32, FusedPointer(mode)),
                   Block(FusedCell(mode), <<m>>),
                   Block(at, <<code>> \o FusedOperand(mode)) >>))

\* The first invocation places AXS #m with a in the accumulator, x in X and
\* carry c.
CallbackAxs ==
    /\ iterations = 0
    /\ \E at \in ProgramAddresses, m \in DcpBytes, a \in DcpAccumulators,
          x \in AxsIndexes, c \in {0, 1} :
         InvokeCallback(Setup(at, a, x, 6, 36 + c, STACK_RESET,
                << Block(at, <<203, m, 0>>) >>))

NextDcp == CallbackDcp \/ CallbackAxs \/ CallbackIdle \/ Step

SpecDcp == Init /\ [][NextDcp]_vars

\* After a DCP of byte m with accumulator a: the cell holds d = (m - 1) mod
\* 256, the carry is carry, Z and N follow (a - d) mod 256.
DcpLeaves(carry) ==
    LET cell == FusedCell(OPCODES_MAP[last.code].mode)
        d == (ByteAt(last.before, cell) + 255) % 256
        a == last.before.register_a
    IN /\ panicked = ""
       /\ ByteAt(CpuRec, cell) = d
       /\ register_a = a
       /\ status = WithZeroNegative(WithBit(last.before.status, CARRY, carry),
                                    (a + 256 - d) % 256)

\* After AXS #m with accumulator a and index x: X holds ((a AND x) - m) mod
\* 256, the carry is carry, Z and N follow X.
AxsLeaves(carry) ==
    LET m == ByteAt(last.before, last.opcode_address + 1)
        ax == BitAnd(last.before.register_a, last.before.register_x)
    IN /\ panicked = ""
       /\ register_x = (ax + 256 - m) % 256
       /\ register_a = last.before.register_a
       /\ status = WithZeroNegative(WithBit(last.before.status, CARRY, carry),
                                    (ax + 256 - m) % 256)

DcpDone == JustStepped /\ last.code \in DcpCodes /\ iterations = 1
AxsDone == JustStepped /\ last.code \in AxsCodes /\ iterations = 1

\* C35: DCP is DEC then CMP: with d = (m - 1) mod 256 the carry is set iff
\* d <= A and cleared otherwise, Z and N come from (A - d) mod 256; AXS sets
\* the carry iff the operand <= (A AND X) and clears it otherwise.
C35_DcpAxsCarry ==
    /\ DcpDone =>
         DcpLeaves((ByteAt(last.before, FusedCell(OPCODES_MAP[last.code].mode)) + 255) % 256
                      <= last.before.register_a)
    /\ AxsDone =>
         AxsLeaves(ByteAt(last.before, last.opcode_address + 1)
                      <= BitAnd(last.before.register_a, last.before.register_x))

\* What the code does: DCP and AXS set the carry when the comparison holds
\* and leave it as it was when it does not.
C35_CarryNeverCleared ==
    /\ DcpDone =>
         DcpLeaves(\/ last.before.status % 2 = 1
                   \/ (ByteAt(last.before, FusedCell(OPCODES_MAP[last.code].mode)) + 255) % 256
                         <= last.before.register_a)
    /\ AxsDone =>
         AxsLeaves(\/ last.before.status % 2 = 1
                   \/ ByteAt(last.before, last.opcode_address + 1)
                         <= BitAnd(last.before.register_a, last.before.register_x))

\* DCP zero-page of 0x02 with A = 0x00 and the carry set: d = 1 > A and the
\* carry is still set.
C35_DcpKeepsCarry ==
    /\ DcpDone /\ last.code = 199
    /\ ByteAt(last.before, 48) = 2 /\ last.before.register_a = 0
    /\ last.before.status = 37
    /\ ByteAt(CpuRec, 48) = 1 /\ status = 165

\* AXS #0x80 with A = 0x7F, X = 0x0F and the carry set: 0x80 > 0x0F and the
\* carry is still set.
C35_AxsKeepsCarry ==
    /\ AxsDone /\ last.before.register_a = 127 /\ last.before.register_x = 15
    /\ ByteAt(last.before, last.opcode_address + 1) = 128
    /\ last.before.status = 37
    /\ register_x = 143 /\ status = 165

---------------------------------------------------------------------------
\* The addressing modes the dispatch arms resolve, as Spec's first callback
\* exercises them with every byte.

\* The dispatch arm of code c hands its descriptor's mode to the resolver:
\* with the mode taken for NoneAddressing the arm ends in the resolver's
\* abort.
UsesResolver(c) ==
    dispatch(CpuRec, c, [OPCODES_MAP[c] EXCEPT !.mode = "NoneAddressing"]).panicked
        = "addressing mode is not supported"

\* C36: the resolver's abort for NoneAddressing is unreachable from the run
\* loop: every opcode whose dispatch arm resolves the mode of its descriptor
\* has a mode other than NoneAddressing in the table.
C36_NoneAddressingUnreachable ==
    /\ panicked # "addressing mode is not supported"
    /\ (iterations = 0 /\ phase = "callback")
         => \A c \in Byte : UsesResolver(c) => OPCODES_MAP[c].mode # "NoneAddressing"

\* LDA zero-page (0xA5), whose arm resolves the mode ZeroPage, and then the
\* state it ran to; INX (0xE8), of mode NoneAddressing, resolves nothing.
C36_Witness ==
    /\ JustStepped /\ last.code = 165 /\ panicked = ""
    /\ UsesResolver(165) /\ OPCODES_MAP[165].mode = "ZeroPage"
    /\ ~UsesResolver(232) /\ OPCODES_MAP[232].mode = "NoneAddressing"

---------------------------------------------------------------------------
\* The len of the descriptors against their addressing modes.

\* The operand bytes the resolver reads at program_counter for a mode: one
\* for the immediate, zero-page and indirect modes, two for the absolute ones.
OneByteModes ==
    {"Immediate", "ZeroPage", "ZeroPage_X", "ZeroPage_Y", "Indirect_X", "Indirect_Y"}
TwoByteModes == {"Absolute", "Absolute_X", "Absolute_Y"}
OperandBytes(mode) == IF mode \in OneByteModes THEN 1 ELSE 2

\* Descriptor e has a len of 1, 2 or 3 that agrees with its mode.
LenAgrees(e) ==
    /\ e.len \in {1, 2, 3}
    /\ e.mode \in OneByteModes => e.len = 2
    /\ e.mode \in TwoByteModes => e.len = 3

\* C37: in every entry of the opcode table len is 1, 2 or 3 and agrees with
\* the mode (2 for Immediate, ZeroPage, ZeroPage_X, ZeroPage_Y, Indirect_X,
\* Indirect_Y; 3 for Absolute, Absolute_X, Absolute_Y); so an iteration that
\* runs an opcode with one of these modes to its end leaves program_counter
\* just after the operand bytes the resolver reads for the mode.
C37_LenAgreesWithMode ==
    /\ \A i \in DOMAIN CPU_OPS_CODES : LenAgrees(CPU_OPS_CODES[i])
    /\ \A c \in DOMAIN OPCODES_MAP : LenAgrees(OPCODES_MAP[c])
    /\ (JustStepped /\ panicked = ""
           /\ OPCODES_MAP[last.code].mode \in OneByteModes \cup TwoByteModes)
         => program_counter
              = (last.opcode_address + 1 + OperandBytes(OPCODES_MAP[last.code].mode)) % 65536

\* LDA absolute (0xAD, len 3) at 0x0200 and LDA immediate (0xA9, len 2):
\* program_counter is 0x0203 after the first.
C37_Witness ==
    /\ JustStepped /\ panicked = "" /\ last.code = 173 /\ last.opcode_address = 512
    /\ OPCODES_MAP[173].mode = "Absolute" /\ OPCODES_MAP[173].len = 3
    /\ OPCODES_MAP[169].mode = "Immediate" /\ OPCODES_MAP[169].len = 2
    /\ program_counter = 515

---------------------------------------------------------------------------
\* BRK, as Spec runs it after any first instruction.

\* C38: the dispatch of BRK (0x00) changes no register, no status bit, no
\* stack byte and no memory byte, and pushes nothing: when the run returns
\* the CPU is as the previous instruction and the last callback left it, with
\* program_counter one past the address of the BRK byte.
C38_BrkChangesNothing ==
    (JustStepped /\ last.code = 0 /\ panicked = "")
      => /\ phase = "halted"
         /\ program_counter = (last.opcode_address + 1) % 65536
         /\ last.opcode_address = last.before.program_counter
         /\ register_a = last.before.register_a
         /\ register_x = last.before.register_x
         /\ register_y = last.before.register_y
         /\ status = last.before.status
         /\ stack_pointer = last.before.stack_pointer
         /\ cpu_vram = last.before.cpu_vram
         /\ ppu = last.before.ppu

\* LDA #0xFF at 0x0200 with status 0xE7 and the stack pointer at 0x00, then
\* BRK at 0x0202: the run has returned with A = 0xFF, the status LDA left,
\* the stack pointer at 0x00 and program_counter 0x0203.
C38_Witness ==
    /\ JustStepped /\ last.code = 0 /\ last.opcode_address = 514 /\ phase = "halted"
    /\ iterations = 2 /\ entry.status = 231 /\ entry.stack_pointer = 0
    /\ ByteAt(entry, 512) = 169 /\ ByteAt(entry, 513) = 255
    /\ register_a = 255 /\ status = 229 /\ stack_pointer = 0
    /\ program_counter = 515

---------------------------------------------------------------------------
\* SpecPpuAddr: run_with_callback where the first callback sets the picture
\* unit's address register and its increment through 0x2006 and 0x2000, and
\* then reads the data register 0x2007 up to MaxReads times.

\* The reads of the data register in a row.
MaxReads == 2

\* The bytes written to the address register, high then low, and to the
\* controller (increment 1, increment 32).
PpuAddrHighs == {0, 32, 35, 47, 63}
PpuAddrLows == {0, 5, 31, 34, 224, 255}
PpuAddrCtrls == {0, 4}

\* The callback writes the address and the increment.
CallbackPpuAddr ==
    /\ phase = "callback"
    /\ iterations = 0
    /\ \E hi \in PpuAddrHighs, lo \in PpuAddrLows, c \in PpuAddrCtrls :
         Then(write_blocks(CpuRec, << Block(8198, <<hi>>), Block(8198, <<lo>>),
                                      Block(8192, <<c>>) >>), LAMBDA t :
              /\ Becomes(t)
              /\ phase' = IF Ok(t) THEN "callback" ELSE "aborted"
              /\ entry' = Snapshot(t)
              /\ last' = NoTrace)
    /\ iterations' = iterations + 1
    /\ UNCHANGED overflow_checks

\* The callback reads the data register: Bus::mem_read(0x2007), which is
\* PPU::read_data.
CallbackReadData ==
    /\ phase = "callback"
    /\ iterations \in 1..MaxReads
    /\ Then(mem_read(CpuRec, 8199), LAMBDA t :
            /\ Becomes(t)
            /\ phase' = IF Ok(t) THEN "callback" ELSE "aborted"
            /\ last' = [NoTrace EXCEPT !.call = "mem_read", !.arg = 8199, !.ret = t.ret,
                                       !.before = Snapshot(CpuRec)])
    /\ iterations' = iterations + 1
    /\ UNCHANGED <<overflow_checks, entry>>

NextPpuAddr == CallbackPpuAddr \/ CallbackReadData

SpecPpuAddr == Init /\ [][NextPpuAddr]_vars

\* read_data has just been applied, with the address register incremented.
ReadDataDone == last.call = "mem_read" /\ last.arg = 8199

\* C39: AddrRegister::increment(inc) advances the address by inc: get()
\* afterwards is (get() before + inc) mod 0x4000, the high byte incremented
\* exactly when the low byte wraps past 0xFF (0x2305 and 1 give 0x2306); so
\* successive read_data walk consecutive addresses.
C39_AddrIncrement ==
    ReadDataDone
      => LET before == addr_get(last.before.ppu.addr)
             step == vram_addr_increment(last.before.ppu.ctrl)
         IN /\ addr_get(ppu.addr) = (before + step) % 16384
            /\ (before = 8965 /\ step = 1) => addr_get(ppu.addr) = 8966

\* What the code does: the byte saved as `lo_before` is value.0, the high
\* byte, so the high byte is incremented exactly when it is greater than the
\* new low byte.
C39_ComparesHighByte ==
    ReadDataDone
      => LET hi == last.before.ppu.addr.value[1]
             lo == last.before.ppu.addr.value[2]
             step == vram_addr_increment(last.before.ppu.ctrl)
             lo_after == (lo + step) % 256
             hi_after == IF hi > lo_after THEN (hi + 1) % 256 ELSE hi
         IN addr_get(ppu.addr) = (256 * hi_after + lo_after) % 16384

\* The address 0x2305 incremented by 1 reads back 0x2406: the high byte 0x23
\* is greater than the new low byte 0x06.
C39_CarryWithoutWrap ==
    /\ ReadDataDone /\ panicked = ""
    /\ addr_get(last.before.ppu.addr) = 8965
    /\ vram_addr_increment(last.before.ppu.ctrl) = 1
    /\ addr_get(ppu.addr) = 9222

\* The address 0x00FF incremented by 1 reads back 0x0000: the low byte wraps
\* and the high byte 0x00 is not greater than the new low byte 0x00.
C39_WrapWithoutCarry ==
    /\ ReadDataDone /\ panicked = ""
    /\ addr_get(last.before.ppu.addr) = 255
    /\ vram_addr_increment(last.before.ppu.ctrl) = 1
    /\ addr_get(ppu.addr) = 0

=============================================================================
